---- MODULE Spec2Model ----
(***************************************************************************)
(* Model of youtube_downloader.py: the DownloadTracker, the bulk download  *)
(* coordinator (parallel_download_workflow / download_video_parallel), the *)
(* URL collection and worker validation of main, and the option building   *)
(* of download_video.                                                      *)
(***************************************************************************)
EXTENDS Integers, Sequences, FiniteSets, TLC

\* ------------------------------------------------------------------ bounds
MaxUrls == 2
MaxWorkers == 2
NumThreads == 2
MaxCalls == 3
MaxChars == 4
MaxLines == 4
MaxMillis == 2000
MaxTracks == 2

\* --------------------------------------------------------------- constants
MAX_WORKERS_LIMIT == 10
DEFAULT_MAX_WORKERS == 3

\* The thread that runs main and parallel_download_workflow; pool tasks and
\* the tracker's other callers are numbered from 1.
Main == 0

VARIABLES
    lock,        \* DownloadTracker.lock: the set holding its owner, if any
    completed,   \* DownloadTracker.completed
    failed,      \* DownloadTracker.failed
    total,       \* DownloadTracker.total
    results,     \* DownloadTracker.results
    tracker,     \* whether a DownloadTracker has been constructed
    thr,         \* per thread: position and locals
    issued,      \* calls of add_result made by the tracker's callers
    argv,        \* the command line (or the arguments of a direct call)
    urls,        \* main: urls
    max_workers, \* main: args.max_workers / the workflow's max_workers
    warned,      \* main: the "exceeds limit" warning was printed
    outcome,     \* how the run ended
    executor,    \* the ThreadPoolExecutor of the workflow
    futures,     \* parallel_download_workflow: futures
    yielded,     \* futures already handed out by as_completed
    status,      \* parallel_download_workflow: status
    failures,    \* the "Failed downloads" lines printed
    dv,          \* download_video: its arguments, ydl_opts and result
    sel,         \* format selection of main and youtube_download_workflow
    ps,          \* parse_subtitle_to_text: argument and return value
    tw,          \* transcription_workflow: its locals and the files it made
    ft,          \* format_timestamp_srt / _vtt: argument and return values
    ex           \* extract_subtitles_from_url: the tracks and its result

trackerVars == <<lock, completed, failed, total, results, tracker>>
mainVars == <<argv, urls, max_workers, warned, outcome, executor, futures,
              yielded, status, failures>>
vars == <<lock, completed, failed, total, results, tracker, thr, issued,
          argv, urls, max_workers, warned, outcome, executor, futures,
          yielded, status, failures, dv, sel, ps, tw, ft, ex>>

NoOwner == {}
NoStatus == [completed |-> 0, failed |-> 0, total |-> 0, success |-> 0]

\* A thread before it has done anything.
Fresh(p) ==
    [pc |-> p, ret |-> "", url |-> 0, success |-> FALSE, message |-> "",
     tmp |-> 0, n |-> 0, snap |-> NoStatus, got |-> <<>>, label |-> "",
     dl |-> FALSE, info |-> "", dlr |-> "", dls |-> 0, result |-> <<>>,
     view |-> "none", list |-> <<>>]

\* ------------------------------------------------------- DownloadTracker
\* DownloadTracker.__init__
TrackerInit ==
    /\ lock = NoOwner
    /\ completed = 0
    /\ failed = 0
    /\ total = 0
    /\ results = <<>>

\* `with self.lock:` is entered only while no thread owns the lock.
LockFree_Ignored == TRUE
LockFree == lock = NoOwner

Acquire(t, entry, body) ==
    /\ thr[t].pc = entry
    /\ LockFree
    /\ lock' = {t}
    /\ thr' = [thr EXCEPT ![t].pc = body]

\* The variant that returns without releasing the lock.
Release_KeepsLock(t, at) ==
    /\ thr[t].pc = at
    /\ UNCHANGED lock
    /\ thr' = [thr EXCEPT ![t].pc = thr[t].ret, ![t].ret = "", ![t].tmp = 0]

\* Leaving the with block releases the lock and the method returns to the
\* caller's continuation.
Release(t, at) ==
    /\ thr[t].pc = at
    /\ lock' = NoOwner
    /\ thr' = [thr EXCEPT ![t].pc = thr[t].ret, ![t].ret = "", ![t].tmp = 0]

\* add_result: with self.lock
AddResultAcquire(t) ==
    /\ Acquire(t, "add_result", "ar_load_completed")
    /\ UNCHANGED <<completed, failed, total, results, tracker, issued, dv, sel, ps, tw, ft, ex>>
    /\ UNCHANGED mainVars

\* add_result: self.completed += 1 (read)
AddResultLoadCompleted(t) ==
    /\ thr[t].pc = "ar_load_completed"
    /\ thr' = [thr EXCEPT ![t].tmp = completed, ![t].pc = "ar_store_completed"]
    /\ UNCHANGED <<trackerVars, issued, dv, sel, ps, tw, ft, ex>>
    /\ UNCHANGED mainVars

\* add_result: self.completed += 1 (write), then the branch on success
AddResultStoreCompleted(t) ==
    /\ thr[t].pc = "ar_store_completed"
    /\ completed' = thr[t].tmp + 1
    /\ thr' = [thr EXCEPT ![t].tmp = 0,
                          ![t].pc = IF thr[t].success THEN "ar_append"
                                    ELSE "ar_load_failed"]
    /\ UNCHANGED <<lock, failed, total, results, tracker, issued, dv, sel, ps, tw, ft, ex>>
    /\ UNCHANGED mainVars

\* add_result: self.failed += 1 (read)
AddResultLoadFailed(t) ==
    /\ thr[t].pc = "ar_load_failed"
    /\ thr' = [thr EXCEPT ![t].tmp = failed, ![t].pc = "ar_store_failed"]
    /\ UNCHANGED <<trackerVars, issued, dv, sel, ps, tw, ft, ex>>
    /\ UNCHANGED mainVars

\* add_result: self.failed += 1 (write)
AddResultStoreFailed(t) ==
    /\ thr[t].pc = "ar_store_failed"
    /\ failed' = thr[t].tmp + 1
    /\ thr' = [thr EXCEPT ![t].tmp = 0, ![t].pc = "ar_append"]
    /\ UNCHANGED <<lock, completed, total, results, tracker, issued, dv, sel, ps, tw, ft, ex>>
    /\ UNCHANGED mainVars

\* The variant that drops the message.
ResultRecord_NoMessage(t) ==
    [url |-> thr[t].url, success |-> thr[t].success, message |-> ""]

\* The record add_result appends.
ResultRecord(t) ==
    [url |-> thr[t].url, success |-> thr[t].success, message |-> thr[t].message]

\* add_result: self.results.append({...})
AddResultAppend(t) ==
    /\ thr[t].pc = "ar_append"
    /\ results' = Append(results, ResultRecord(t))
    /\ thr' = [thr EXCEPT ![t].pc = "ar_release"]
    /\ UNCHANGED <<lock, completed, failed, total, tracker, issued, dv, sel, ps, tw, ft, ex>>
    /\ UNCHANGED mainVars

\* add_result: end of the with block
AddResultRelease(t) ==
    /\ Release(t, "ar_release")
    /\ UNCHANGED <<completed, failed, total, results, tracker, issued, dv, sel, ps, tw, ft, ex>>
    /\ UNCHANGED mainVars

\* set_total: with self.lock
SetTotalAcquire(t) ==
    /\ Acquire(t, "set_total", "st_store")
    /\ UNCHANGED <<completed, failed, total, results, tracker, issued, dv, sel, ps, tw, ft, ex>>
    /\ UNCHANGED mainVars

\* set_total: self.total = total
SetTotalStore(t) ==
    /\ thr[t].pc = "st_store"
    /\ total' = thr[t].n
    /\ thr' = [thr EXCEPT ![t].pc = "st_release", ![t].n = 0]
    /\ UNCHANGED <<lock, completed, failed, results, tracker, issued, dv, sel, ps, tw, ft, ex>>
    /\ UNCHANGED mainVars

\* set_total: end of the with block
SetTotalRelease(t) ==
    /\ Release(t, "st_release")
    /\ UNCHANGED <<completed, failed, total, results, tracker, issued, dv, sel, ps, tw, ft, ex>>
    /\ UNCHANGED mainVars

\* get_status: with self.lock
GetStatusAcquire(t) ==
    /\ Acquire(t, "get_status", "gs_completed")
    /\ UNCHANGED <<completed, failed, total, results, tracker, issued, dv, sel, ps, tw, ft, ex>>
    /\ UNCHANGED mainVars

\* get_status: 'completed': self.completed
GetStatusCompleted(t) ==
    /\ thr[t].pc = "gs_completed"
    /\ thr' = [thr EXCEPT ![t].snap = [NoStatus EXCEPT !.completed = completed],
                          ![t].pc = "gs_failed"]
    /\ UNCHANGED <<trackerVars, issued, dv, sel, ps, tw, ft, ex>>
    /\ UNCHANGED mainVars

\* get_status: 'failed': self.failed
GetStatusFailed(t) ==
    /\ thr[t].pc = "gs_failed"
    /\ thr' = [thr EXCEPT ![t].snap.failed = failed, ![t].pc = "gs_total"]
    /\ UNCHANGED <<trackerVars, issued, dv, sel, ps, tw, ft, ex>>
    /\ UNCHANGED mainVars

\* get_status: 'total': self.total
GetStatusTotal(t) ==
    /\ thr[t].pc = "gs_total"
    /\ thr' = [thr EXCEPT ![t].snap.total = total, ![t].pc = "gs_success"]
    /\ UNCHANGED <<trackerVars, issued, dv, sel, ps, tw, ft, ex>>
    /\ UNCHANGED mainVars

\* get_status: 'success': self.completed - self.failed
GetStatusSuccess(t) ==
    /\ thr[t].pc = "gs_success"
    /\ thr' = [thr EXCEPT ![t].snap.success = completed - failed,
                          ![t].pc = "gs_release"]
    /\ UNCHANGED <<trackerVars, issued, dv, sel, ps, tw, ft, ex>>
    /\ UNCHANGED mainVars

\* get_status: end of the with block, the dict is returned
GetStatusRelease(t) ==
    /\ Release(t, "gs_release")
    /\ UNCHANGED <<completed, failed, total, results, tracker, issued, dv, sel, ps, tw, ft, ex>>
    /\ UNCHANGED mainVars

\* get_results: with self.lock
GetResultsAcquire(t) ==
    /\ Acquire(t, "get_results", "gr_copy")
    /\ UNCHANGED <<completed, failed, total, results, tracker, issued, dv, sel, ps, tw, ft, ex>>
    /\ UNCHANGED mainVars

\* What get_results hands out: "copy", a new list with the elements of
\* self.results, or "live", the list object self.results itself.
GetResultsView_Live == "live"
GetResultsView == "copy"

\* The list a caller holds after get_results: its own list, or the tracker's.
Returned(t) == IF thr[t].view = "live" THEN results ELSE thr[t].list

\* get_results: self.results.copy()
GetResultsCopy(t) ==
    /\ thr[t].pc = "gr_copy"
    /\ thr' = [thr EXCEPT ![t].got = results, ![t].list = results,
                          ![t].view = GetResultsView, ![t].pc = "gr_release"]
    /\ UNCHANGED <<trackerVars, issued, dv, sel, ps, tw, ft, ex>>
    /\ UNCHANGED mainVars

\* get_results: end of the with block, the copy is returned
GetResultsRelease(t) ==
    /\ Release(t, "gr_release")
    /\ UNCHANGED <<completed, failed, total, results, tracker, issued, dv, sel, ps, tw, ft, ex>>
    /\ UNCHANGED mainVars

\* Every step inside one of the tracker's methods.
TrackerStep(t) ==
    \/ AddResultAcquire(t)
    \/ AddResultLoadCompleted(t)
    \/ AddResultStoreCompleted(t)
    \/ AddResultLoadFailed(t)
    \/ AddResultStoreFailed(t)
    \/ AddResultAppend(t)
    \/ AddResultRelease(t)
    \/ SetTotalAcquire(t)
    \/ SetTotalStore(t)
    \/ SetTotalRelease(t)
    \/ GetStatusAcquire(t)
    \/ GetStatusCompleted(t)
    \/ GetStatusFailed(t)
    \/ GetStatusTotal(t)
    \/ GetStatusSuccess(t)
    \/ GetStatusRelease(t)
    \/ GetResultsAcquire(t)
    \/ GetResultsCopy(t)
    \/ GetResultsRelease(t)

\* ------------------------------------------ concurrent callers of a tracker
\* The threads of test_tracker_thread_safety, generalised: NumThreads threads
\* make up to MaxCalls calls of the tracker's four methods between them, in
\* any order and interleaving.
Callers == 1..NumThreads

NoMain ==
    /\ argv = [entry |-> "tracker", max_workers |-> DEFAULT_MAX_WORKERS]
    /\ urls = <<>>
    /\ max_workers = DEFAULT_MAX_WORKERS
    /\ warned = FALSE
    /\ outcome = ""
    /\ executor = [created |-> FALSE, max_workers |-> 0]
    /\ futures = <<>>
    /\ yielded = 0
    /\ status = NoStatus
    /\ failures = <<>>

NoDownload == [pc |-> "none"]
NoSelection == [pc |-> "none"]
NoParse == [pc |-> "none"]
NoTranscription == [pc |-> "none"]
NoFormat == [pc |-> "none"]
NoExtract == [pc |-> "none"]

InitTracker ==
    /\ TrackerInit
    /\ tracker = TRUE
    /\ thr = [t \in Callers |-> Fresh("idle")]
    /\ issued = [calls |-> 0, adds |-> 0, fails |-> 0]
    /\ NoMain
    /\ dv = NoDownload
    /\ sel = NoSelection
    /\ ps = NoParse
    /\ tw = NoTranscription
    /\ ft = NoFormat
    /\ ex = NoExtract

CanCall(t) ==
    /\ thr[t].pc = "idle"
    /\ issued.calls < MaxCalls

\* tracker.add_result(url, success, message)
CallAddResult(t) ==
    /\ CanCall(t)
    /\ \E s \in BOOLEAN :
        /\ thr' = [thr EXCEPT ![t].pc = "add_result", ![t].ret = "idle",
                              ![t].url = issued.calls + 1,
                              ![t].success = s,
                              ![t].message = IF s THEN "Success" ELSE "Failed"]
        /\ issued' = [issued EXCEPT !.calls = @ + 1, !.adds = @ + 1,
                                    !.fails = IF s THEN @ ELSE @ + 1]
    /\ UNCHANGED <<trackerVars, dv, sel, ps, tw, ft, ex>>
    /\ UNCHANGED mainVars

\* tracker.set_total(n)
CallSetTotal(t) ==
    /\ CanCall(t)
    /\ thr' = [thr EXCEPT ![t].pc = "set_total", ![t].ret = "idle",
                          ![t].n = MaxCalls]
    /\ issued' = [issued EXCEPT !.calls = @ + 1]
    /\ UNCHANGED <<trackerVars, dv, sel, ps, tw, ft, ex>>
    /\ UNCHANGED mainVars

\* tracker.get_status()
CallGetStatus(t) ==
    /\ CanCall(t)
    /\ thr' = [thr EXCEPT ![t].pc = "get_status", ![t].ret = "idle"]
    /\ issued' = [issued EXCEPT !.calls = @ + 1]
    /\ UNCHANGED <<trackerVars, dv, sel, ps, tw, ft, ex>>
    /\ UNCHANGED mainVars

\* tracker.get_results()
CallGetResults(t) ==
    /\ CanCall(t)
    /\ thr' = [thr EXCEPT ![t].pc = "get_results", ![t].ret = "idle"]
    /\ issued' = [issued EXCEPT !.calls = @ + 1]
    /\ UNCHANGED <<trackerVars, dv, sel, ps, tw, ft, ex>>
    /\ UNCHANGED mainVars

\* What a caller puts into the list it got.
CallerItem == [url |-> 0, success |-> FALSE, message |-> "caller"]

\* The caller changes the list object it holds to `to`.
CallerSetsList(t, to) ==
    /\ CanCall(t)
    /\ thr[t].view # "none"
    /\ issued' = [issued EXCEPT !.calls = @ + 1]
    /\ IF thr[t].view = "live"
       THEN /\ results' = to
            /\ UNCHANGED thr
       ELSE /\ thr' = [thr EXCEPT ![t].list = to]
            /\ UNCHANGED results
    /\ UNCHANGED <<lock, completed, failed, total, tracker, dv, sel, ps, tw, ft, ex>>
    /\ UNCHANGED mainVars

\* results = tracker.get_results(); results.append(item)
CallerAppend(t) == CallerSetsList(t, Append(Returned(t), CallerItem))

\* results = tracker.get_results(); results.pop()
CallerPop(t) ==
    /\ Returned(t) # <<>>
    /\ CallerSetsList(t, SubSeq(Returned(t), 1, Len(Returned(t)) - 1))

NextTracker ==
    \E t \in Callers :
        \/ CallerAppend(t)
        \/ CallerPop(t)
        \/ CallAddResult(t)
        \/ CallSetTotal(t)
        \/ CallGetStatus(t)
        \/ CallGetResults(t)
        \/ TrackerStep(t)

SpecTracker == InitTracker /\ [][NextTracker]_vars

\* ------------------------------------------------ download_video_parallel
Tasks == 1..MaxUrls

\* future.done()
Done_AtOnce(i) == TRUE
Done(i) == thr[i].pc = "finished"

\* Tasks a pool thread has taken from the work queue and not yet finished.
Running == {i \in Tasks : thr[i].pc \notin {"unsubmitted", "queued", "finished"}}

\* ThreadPoolExecutor(max_workers=W) runs at most W work items at a time.
PoolHasIdleWorker_Unbounded == TRUE
PoolHasIdleWorker == Cardinality(Running) < executor.max_workers

\* A pool thread takes the oldest queued work item and calls
\* download_video_parallel.
TaskStart(i) ==
    /\ thr[i].pc = "queued"
    /\ \A j \in 1..(i - 1) : thr[j].pc # "queued"
    /\ PoolHasIdleWorker
    /\ thr' = [thr EXCEPT ![i].pc = "get_video_info"]
    /\ UNCHANGED <<trackerVars, issued, dv, sel, ps, tw, ft, ex>>
    /\ UNCHANGED mainVars

\* except Exception as e: the failure is recorded and returned.
ExceptHandler_Escapes(t, e) ==
    [thr[t] EXCEPT !.pc = "finished", !.success = FALSE, !.message = e]
ExceptHandler(t, e) ==
    [thr[t] EXCEPT !.pc = "add_result", !.ret = "finished", !.success = FALSE,
                   !.message = e, !.result = <<thr[t].url, FALSE, e>>]

\* info = get_video_info(...): a dict, None (DownloadError, caught inside
\* get_video_info), or any other exception.
TaskGetVideoInfo(i) ==
    /\ thr[i].pc = "get_video_info"
    /\ \E r \in {"info", "None", "raise"} :
        thr' = [thr EXCEPT ![i] =
                   IF r = "raise"
                   THEN [ExceptHandler(i, "Error: get_video_info") EXCEPT
                            !.info = r]
                   ELSE [thr[i] EXCEPT !.pc = "download_video", !.info = r,
                                       !.label = IF r = "info" THEN "title" ELSE ""]]
    /\ UNCHANGED <<trackerVars, issued, dv, sel, ps, tw, ft, ex>>
    /\ UNCHANGED mainVars

\* output_path, success = download_video(...): True, False (DownloadError,
\* caught inside download_video), or any other exception; then the branch on
\* success up to the call of tracker.add_result.
TaskDownloadVideo(i) ==
    /\ thr[i].pc = "download_video"
    /\ \E r \in {"True", "False", "raise"} :
        thr' = [thr EXCEPT ![i] =
                   IF r = "raise"
                   THEN [ExceptHandler(i, "Error: download_video") EXCEPT
                            !.dl = TRUE, !.dlr = r, !.dls = @ + 1]
                   ELSE LET message == IF r = "True"
                                       THEN "Downloaded to output_path"
                                       ELSE "Failed to download"
                        IN [thr[i] EXCEPT !.pc = "add_result", !.ret = "finished",
                                          !.dl = TRUE, !.dlr = r, !.dls = @ + 1,
                                          !.success = (r = "True"),
                                          !.message = message,
                                          !.result = <<thr[i].url, r = "True",
                                                       message>>]]
    /\ UNCHANGED <<trackerVars, issued, dv, sel, ps, tw, ft, ex>>
    /\ UNCHANGED mainVars

TaskStep(i) ==
    \/ TaskStart(i)
    \/ TaskGetVideoInfo(i)
    \/ TaskDownloadVideo(i)
    \/ TrackerStep(i)

\* ---------------------------------------------- parallel_download_workflow
At(p) == thr[Main].pc = p

Goto(p) == thr' = [thr EXCEPT ![Main].pc = p]

\* if not urls: return; otherwise DownloadTracker() and tracker.set_total
WorkflowEnter ==
    /\ At("parallel_download_workflow")
    /\ IF Len(urls) = 0
       THEN /\ Goto("done")
            /\ outcome' = "No URLs provided for download."
            /\ UNCHANGED trackerVars
       ELSE /\ tracker' = TRUE
            /\ lock' = NoOwner
            /\ completed' = 0
            /\ failed' = 0
            /\ total' = 0
            /\ results' = <<>>
            /\ thr' = [thr EXCEPT ![Main].pc = "set_total",
                                  ![Main].ret = "executor",
                                  ![Main].n = Len(urls)]
            /\ UNCHANGED outcome
    /\ UNCHANGED <<issued, dv, sel, ps, tw, ft, ex, argv, urls, max_workers, warned, executor,
                   futures, yielded, status, failures>>

\* with ThreadPoolExecutor(max_workers=max_workers) as executor
WorkflowExecutor ==
    /\ At("executor")
    /\ executor' = [created |-> TRUE, max_workers |-> max_workers]
    /\ Goto("submit")
    /\ UNCHANGED <<trackerVars, issued, dv, sel, ps, tw, ft, ex, argv, urls, max_workers, warned,
                   outcome, futures, yielded, status, failures>>

\* for idx, url in enumerate(urls, 1): executor.submit(...); futures.append
WorkflowSubmit ==
    /\ At("submit")
    /\ LET idx == Len(futures) + 1 IN
        /\ idx <= Len(urls)
        /\ futures' = Append(futures, idx)
        /\ thr' = [thr EXCEPT ![idx].pc = "queued", ![idx].url = urls[idx],
                              ![Main].pc = IF idx = Len(urls) THEN "as_completed"
                                           ELSE "submit"]
    /\ UNCHANGED <<trackerVars, issued, dv, sel, ps, tw, ft, ex, argv, urls, max_workers, warned,
                   outcome, executor, yielded, status, failures>>

DoneFutures == {k \in 1..Len(futures) : Done(futures[k])}

\* for future in as_completed(futures): future.result()
WorkflowAsCompleted ==
    /\ At("as_completed")
    /\ yielded < Cardinality(DoneFutures)
    /\ yielded' = yielded + 1
    /\ UNCHANGED <<trackerVars, thr, issued, dv, sel, ps, tw, ft, ex, argv, urls, max_workers,
                   warned, outcome, executor, futures, status, failures>>

\* The loop ends when every future has been yielded; leaving the with block
\* joins the pool (shutdown(wait=True)); then status = tracker.get_status().
WorkflowJoin ==
    /\ At("as_completed")
    /\ yielded = Len(futures)
    /\ \A k \in 1..Len(futures) : Done(futures[k])
    /\ thr' = [thr EXCEPT ![Main].pc = "get_status", ![Main].ret = "summary"]
    /\ UNCHANGED <<trackerVars, issued, dv, sel, ps, tw, ft, ex>>
    /\ UNCHANGED mainVars

\* The summary is printed from status; the failure list only if failed > 0.
WorkflowSummary ==
    /\ At("summary")
    /\ status' = thr[Main].snap
    /\ IF thr[Main].snap.failed > 0
       THEN /\ thr' = [thr EXCEPT ![Main].pc = "get_results",
                                  ![Main].ret = "failures"]
            /\ UNCHANGED outcome
       ELSE /\ Goto("done")
            /\ outcome' = "Download Summary"
    /\ UNCHANGED <<trackerVars, issued, dv, sel, ps, tw, ft, ex, argv, urls, max_workers, warned,
                   executor, futures, yielded, failures>>

\* The variant that lists every result.
FailedOf_All(rs) ==
    [k \in 1..Len(rs) |-> [url |-> rs[k].url, message |-> rs[k].message]]

\* The (url, message) pairs that "Failed downloads:" lists.
FailedOf(rs) ==
    LET NotOk(r) == ~r.success
        bad == SelectSeq(rs, NotOk)
    IN [k \in 1..Len(bad) |-> [url |-> bad[k].url, message |-> bad[k].message]]

\* for result in results: if not result['success']: print url and reason
WorkflowFailures ==
    /\ At("failures")
    /\ failures' = FailedOf(thr[Main].got)
    /\ outcome' = "Download Summary"
    /\ Goto("done")
    /\ UNCHANGED <<trackerVars, issued, dv, sel, ps, tw, ft, ex, argv, urls, max_workers, warned,
                   executor, futures, yielded, status>>

WorkflowStep ==
    \/ WorkflowEnter
    \/ WorkflowExecutor
    \/ WorkflowSubmit
    \/ WorkflowAsCompleted
    \/ WorkflowJoin
    \/ WorkflowSummary
    \/ WorkflowFailures
    \/ TrackerStep(Main)

\* -------------------------------------------------------------------- main
\* --max-workers values tried: below 1, in range, at and above the limit.
WorkerArgs == ((-1)..MaxWorkers) \cup {MAX_WORKERS_LIMIT, MAX_WORKERS_LIMIT + 1}

\* n distinct URLs appended to a list of length k.
MoreUrls(k, n) == [j \in 1..n |-> k + j]

\* --list-sites, a missing yt-dlp, --convert and --transcribe leave main
\* before any URL is collected.
MainOther ==
    /\ At("main")
    /\ \E o \in {"--list-sites", "yt-dlp not installed", "--convert",
                  "--transcribe"} :
        outcome' = o
    /\ Goto("done")
    /\ UNCHANGED <<trackerVars, issued, dv, sel, ps, tw, ft, ex, argv, urls, max_workers, warned,
                   executor, futures, yielded, status, failures>>

\* urls = []; if args.url: urls.extend(args.url)
MainCollectArgs ==
    /\ At("main")
    /\ \E n \in 0..MaxUrls : urls' = MoreUrls(0, n)
    /\ Goto("batch_file")
    /\ UNCHANGED <<trackerVars, issued, dv, sel, ps, tw, ft, ex, argv, max_workers, warned, outcome,
                   executor, futures, yielded, status, failures>>

\* if args.batch_file: read_urls_from_file returns None (file missing or
\* unreadable) or the file's URLs
MainBatchFile_KeepsGoing ==
    /\ At("batch_file")
    /\ Goto("stdin")
    /\ outcome' = "Error: File not found."
    /\ UNCHANGED <<trackerVars, issued, dv, sel, ps, tw, ft, ex, argv, urls, max_workers, warned,
                   executor, futures, yielded, status, failures>>
MainBatchFile ==
    /\ At("batch_file")
    /\ \/ /\ Goto("stdin")
          /\ UNCHANGED <<urls, outcome>>
       \/ /\ Goto("done")
          /\ outcome' = "Error: File not found."
          /\ UNCHANGED urls
       \/ \E n \in 0..(MaxUrls - Len(urls)) :
            /\ urls' = urls \o MoreUrls(Len(urls), n)
            /\ Goto("stdin")
            /\ UNCHANGED outcome
    /\ UNCHANGED <<trackerVars, issued, dv, sel, ps, tw, ft, ex, argv, max_workers, warned,
                   executor, futures, yielded, status, failures>>

\* if args.stdin: read_urls_from_stdin returns None (KeyboardInterrupt) or the
\* URLs read
MainStdin ==
    /\ At("stdin")
    /\ \/ /\ Goto("validate")
          /\ UNCHANGED <<urls, outcome>>
       \/ /\ Goto("done")
          /\ outcome' = "Input cancelled."
          /\ UNCHANGED urls
       \/ \E n \in 0..(MaxUrls - Len(urls)) :
            /\ urls' = urls \o MoreUrls(Len(urls), n)
            /\ Goto("validate")
            /\ UNCHANGED outcome
    /\ UNCHANGED <<trackerVars, issued, dv, sel, ps, tw, ft, ex, argv, max_workers, warned,
                   executor, futures, yielded, status, failures>>

\* args.max_workers after the validation: None when it is rejected.
Validated_NoCheck(w) == [ok |-> TRUE, value |-> w, warned |-> FALSE]
Validated(w) ==
    IF w < 1 THEN [ok |-> FALSE, value |-> w, warned |-> FALSE]
    ELSE IF w > MAX_WORKERS_LIMIT
         THEN [ok |-> TRUE, value |-> MAX_WORKERS_LIMIT, warned |-> TRUE]
         ELSE [ok |-> TRUE, value |-> w, warned |-> FALSE]

\* Validate max_workers
MainValidate ==
    /\ At("validate")
    /\ LET v == Validated(max_workers) IN
        /\ max_workers' = v.value
        /\ warned' = v.warned
        /\ IF v.ok
           THEN Goto("dispatch") /\ UNCHANGED outcome
           ELSE Goto("done") /\ outcome' = "Error: --max-workers must be at least 1"
    /\ UNCHANGED <<trackerVars, issued, dv, sel, ps, tw, ft, ex, argv, urls, executor, futures,
                   yielded, status, failures>>

\* if len(urls) > 1 or args.parallel: ... elif len(urls) == 1: ... else menu
MainDispatch ==
    /\ At("dispatch")
    /\ \E parallel \in BOOLEAN :
        IF Len(urls) > 1 \/ parallel
        THEN IF Len(urls) = 0
             THEN /\ Goto("done")
                  /\ outcome' = "Error: No URLs provided for parallel download."
             ELSE /\ Goto("parallel_download_workflow")
                  /\ UNCHANGED outcome
        ELSE IF Len(urls) = 1
             THEN /\ Goto("youtube_download_workflow")
                  /\ UNCHANGED outcome
             ELSE /\ Goto("menu")
                  /\ UNCHANGED outcome
    /\ UNCHANGED <<trackerVars, issued, dv, sel, ps, tw, ft, ex, argv, urls, max_workers, warned,
                   executor, futures, yielded, status, failures>>

\* while True: choice = show_main_menu()
MainMenu ==
    /\ At("menu")
    /\ \E choice \in {"1", "2", "3", "4", "other"} :
        CASE choice = "1" -> Goto("youtube_download_workflow") /\ UNCHANGED outcome
          [] choice = "2" -> Goto("done") /\ outcome' = "audio_conversion_workflow"
          [] choice = "3" -> Goto("done") /\ outcome' = "transcription_workflow"
          [] choice = "4" -> Goto("done") /\ outcome' = "Goodbye!"
          [] OTHER -> UNCHANGED <<thr, outcome>>
    /\ UNCHANGED <<trackerVars, issued, dv, sel, ps, tw, ft, ex, argv, urls, max_workers, warned,
                   executor, futures, yielded, status, failures>>

\* youtube_download_workflow: returns before the download (bad URL, no info,
\* --info, no format chosen) or calls download_video once.
YoutubeDownloadWorkflow ==
    /\ At("youtube_download_workflow")
    /\ \E r \in {"return", "True", "False"} :
        /\ thr' = [thr EXCEPT ![Main].pc = "done", ![Main].dl = (r # "return")]
        /\ outcome' = CASE r = "return" -> "no download"
                        [] r = "True" -> "Download completed successfully!"
                        [] OTHER -> "Download failed."
    /\ UNCHANGED <<trackerVars, issued, dv, sel, ps, tw, ft, ex, argv, urls, max_workers, warned,
                   executor, futures, yielded, status, failures>>

MainStep ==
    \/ MainOther
    \/ MainCollectArgs
    \/ MainBatchFile
    \/ MainStdin
    \/ MainValidate
    \/ MainDispatch
    \/ MainMenu
    \/ YoutubeDownloadWorkflow

\* A run starts in main with some --max-workers value, or as a direct call of
\* parallel_download_workflow(urls, ..., max_workers).
Init ==
    /\ TrackerInit
    /\ tracker = FALSE
    /\ issued = [calls |-> 0, adds |-> 0, fails |-> 0]
    /\ \/ /\ \E w \in WorkerArgs : argv = [entry |-> "main", max_workers |-> w]
          /\ urls = <<>>
          /\ thr = [t \in {Main} \cup Tasks |->
                       Fresh(IF t = Main THEN "main" ELSE "unsubmitted")]
       \/ /\ \E w \in 1..MaxWorkers :
                argv = [entry |-> "parallel_download_workflow", max_workers |-> w]
          /\ \E n \in 0..MaxUrls : urls = MoreUrls(0, n)
          /\ thr = [t \in {Main} \cup Tasks |->
                       Fresh(IF t = Main THEN "parallel_download_workflow"
                             ELSE "unsubmitted")]
    /\ max_workers = argv.max_workers
    /\ warned = FALSE
    /\ outcome = ""
    /\ executor = [created |-> FALSE, max_workers |-> 0]
    /\ futures = <<>>
    /\ yielded = 0
    /\ status = NoStatus
    /\ failures = <<>>
    /\ dv = NoDownload
    /\ sel = NoSelection
    /\ ps = NoParse
    /\ tw = NoTranscription
    /\ ft = NoFormat
    /\ ex = NoExtract

Next ==
    \/ MainStep
    \/ WorkflowStep
    \/ \E i \in Tasks : TaskStep(i)

Spec == Init /\ [][Next]_vars

\* The main thread and every pool thread keep being scheduled: a thread that
\* can take a step (a download that is running returns or raises, a lock
\* that is free is acquired) eventually takes one.
Fairness ==
    /\ WF_vars(WorkflowStep)
    /\ \A i \in Tasks : WF_vars(TaskStep(i))

\* parallel_download_workflow called directly, as its tests call it.
InitBulk == Init /\ argv.entry = "parallel_download_workflow"

NextBulk ==
    \/ WorkflowStep
    \/ \E i \in Tasks : TaskStep(i)

SpecFair == InitBulk /\ [][NextBulk]_vars /\ Fairness

\* ---------------------------------------------------------- download_video
\* Python's None, and the truth value of an optional string argument.
None == "None"
Truthy(x) == x \notin {None, ""}

\* dict.update(e): the keys of e replace or extend those of d.
Update(d, e) == e @@ d

\* Format selections: the six symbolic ones and an opaque format id.
Formats == {"best", "bestvideo", "bestaudio", "high", "mp3", "mp4", "137"}

DownloadArgs ==
    [format_selection : Formats,
     ffmpeg_available : BOOLEAN,
     cookies_file : {None, "cookies.txt"},
     cookies_from_browser : {None, "firefox"},
     is_playlist : BOOLEAN,
     archive_file : {None, "archive.txt"}]

\* ydl_opts = {...}
BaseOptions(a) ==
    [format |-> a.format_selection,
     outtmpl |-> IF a.is_playlist
                 THEN "safe_output_dir/%(playlist_index)03d - %(title)s.%(ext)s"
                 ELSE "safe_output_dir/%(title)s.%(ext)s",
     progress_hooks |-> <<"progress_hook">>,
     quiet |-> FALSE,
     no_warnings |-> TRUE,
     ignoreerrors |-> a.is_playlist]

\* Add cookies support
CookieOptions(a) ==
    IF Truthy(a.cookies_file) THEN [cookiefile |-> a.cookies_file]
    ELSE IF Truthy(a.cookies_from_browser)
         THEN [cookiesfrombrowser |-> <<a.cookies_from_browser>>]
         ELSE <<>>

\* Add archive file support
ArchiveOptions(a) ==
    IF Truthy(a.archive_file) THEN [download_archive |-> a.archive_file]
    ELSE IF a.is_playlist
         THEN [download_archive |-> "safe_output_dir/.yt-dlp-archive.txt"]
         ELSE <<>>

\* Handle special format cases: the update applied to ydl_opts and what is
\* printed.
SpecialFormat_NoFfmpegCheck(format_selection, ffmpeg_available) ==
    CASE format_selection = "mp3" ->
            [update |-> [format |-> "bestaudio/best",
                         postprocessors |->
                            <<[key |-> "FFmpegExtractAudio",
                               preferredcodec |-> "mp3",
                               preferredquality |-> "192"]>>],
             printed |-> <<>>]
      [] format_selection = "mp4" ->
            [update |-> [format |->
                            "bestvideo[ext=mp4]+bestaudio[ext=m4a]/best[ext=mp4]/best"],
             printed |-> <<>>]
      [] format_selection = "high" ->
            [update |-> [format |-> "bestvideo+bestaudio/best",
                         merge_output_format |-> "mp4"],
             printed |-> <<>>]
      [] OTHER -> [update |-> <<>>, printed |-> <<>>]
SpecialFormat(format_selection, ffmpeg_available) ==
    CASE format_selection = "mp3" ->
            IF ~ffmpeg_available
            THEN [update |-> [format |-> "bestaudio/best"],
                  printed |-> <<"Error: FFmpeg is required for MP3 conversion.",
                                "Falling back to best audio format without conversion.">>]
            ELSE [update |-> [format |-> "bestaudio/best",
                              postprocessors |->
                                 <<[key |-> "FFmpegExtractAudio",
                                    preferredcodec |-> "mp3",
                                    preferredquality |-> "192"]>>],
                  printed |-> <<>>]
      [] format_selection = "mp4" ->
            IF ffmpeg_available
            THEN [update |-> [format |->
                     "bestvideo[ext=mp4]+bestaudio[ext=m4a]/best[ext=mp4]/best"],
                  printed |-> <<>>]
            ELSE [update |-> [format |-> "best[ext=mp4]/best"],
                  printed |-> <<>>]
      [] format_selection = "high" ->
            IF ~ffmpeg_available
            THEN [update |-> [format |-> "best"],
                  printed |-> <<"Error: FFmpeg is required for high quality downloads.",
                                "Falling back to best available combined format.">>]
            ELSE [update |-> [format |-> "bestvideo+bestaudio/best",
                              merge_output_format |-> "mp4"],
                  printed |-> <<>>]
      [] OTHER -> [update |-> <<>>, printed |-> <<>>]

restVars == <<lock, completed, failed, total, results, tracker, thr, issued,
              argv, urls, max_workers, warned, outcome, executor, futures,
              yielded, status, failures, sel, ps, tw, ft, ex>>

\* Configure yt-dlp options: the base dict, cookies and archive
DownloadVideoConfigure ==
    /\ dv.pc = "configure"
    /\ dv' = [dv EXCEPT !.pc = "special_format",
                        !.ydl_opts = Update(Update(BaseOptions(dv.args),
                                                   CookieOptions(dv.args)),
                                            ArchiveOptions(dv.args))]
    /\ UNCHANGED restVars

\* Handle special format cases
DownloadVideoSpecialFormat ==
    /\ dv.pc = "special_format"
    /\ LET sf == SpecialFormat(dv.args.format_selection, dv.args.ffmpeg_available)
       IN dv' = [dv EXCEPT !.pc = "download",
                           !.ydl_opts = Update(dv.ydl_opts, sf.update),
                           !.printed = sf.printed]
    /\ UNCHANGED restVars

\* ydl.download([url]): returns (safe_output_dir, True), or False on a
\* DownloadError
DownloadVideoDownload ==
    /\ dv.pc = "download"
    /\ \E ok \in BOOLEAN : dv' = [dv EXCEPT !.pc = "returned", !.result = ok]
    /\ UNCHANGED restVars

InitFmt ==
    /\ TrackerInit
    /\ tracker = FALSE
    /\ thr = <<>>
    /\ issued = [calls |-> 0, adds |-> 0, fails |-> 0]
    /\ NoMain
    /\ sel = NoSelection
    /\ ps = NoParse
    /\ tw = NoTranscription
    /\ ft = NoFormat
    /\ ex = NoExtract
    /\ \E a \in DownloadArgs :
        dv = [pc |-> "configure", args |-> a, ydl_opts |-> <<>>,
              printed |-> <<>>, result |-> FALSE]

NextFmt ==
    \/ DownloadVideoConfigure
    \/ DownloadVideoSpecialFormat
    \/ DownloadVideoDownload

SpecFmt == InitFmt /\ [][NextFmt]_vars

\* -------------------------------------------------------- format selection
\* The special options of the format prompt and the format ids of the video.
SpecialOptions == {"best", "bestvideo", "bestaudio", "high", "mp3", "mp4"}
FormatIds == {"137"}

\* What the user may type at the format prompt, and what fuzzy_search_format
\* may suggest.
PromptInputs == {"best", "mp3", "MP3", "high", "mp4", "137", "hgih", ""}
FuzzyResults == {None, "high", "137"}

\* str.lower() on the strings above
Lower(s) == IF s = "MP3" THEN "mp3" ELSE s

\* The parsed command line: --mp3, --mp4, --high, --format, --info
FlagArgs ==
    [mp3 : BOOLEAN, mp4 : BOOLEAN, high : BOOLEAN,
     format : {None, "", "137"}, info : BOOLEAN]

\* main: determine format selection for parallel downloads
MainFormatSelection_Mp4First(args) ==
    IF args.mp4 THEN "mp4"
    ELSE IF args.mp3 THEN "mp3"
    ELSE IF args.high THEN "high"
    ELSE IF Truthy(args.format) THEN args.format
    ELSE "best"
MainFormatSelection(args) ==
    IF args.mp3 THEN "mp3"
    ELSE IF args.mp4 THEN "mp4"
    ELSE IF args.high THEN "high"
    ELSE IF Truthy(args.format) THEN args.format
    ELSE "best"

\* youtube_download_workflow: the format selection a flag determines (None
\* when no flag does) and the warning printed with it.
WorkflowFlagSelection(args, ffmpeg_installed) ==
    IF args.mp3
    THEN [format_selection |-> "mp3",
          printed |-> IF ~ffmpeg_installed
                      THEN <<"Warning: FFmpeg is required for MP3 conversion.",
                             "The audio will be downloaded in its original format instead.">>
                      ELSE <<>>]
    ELSE IF args.mp4
    THEN [format_selection |-> "mp4", printed |-> <<>>]
    ELSE IF args.high
    THEN [format_selection |-> "high",
          printed |-> IF ~ffmpeg_installed
                      THEN <<"Warning: FFmpeg is required for high quality downloads to merge video and audio.",
                             "Falling back to best available combined format.">>
                      ELSE <<>>]
    ELSE IF Truthy(args.format)
    THEN [format_selection |-> args.format, printed |-> <<>>]
    ELSE [format_selection |-> None, printed |-> <<>>]

\* The format prompt's answer after the fuzzy search: a suggestion replaces an
\* answer that is neither a special option nor a format id, if the user
\* accepts it.
FuzzySelection(entered, fuzzy_available, fuzzy_result, use_fuzzy) ==
    IF /\ fuzzy_available
       /\ entered # ""
       /\ Lower(entered) \notin SpecialOptions
       /\ entered \notin FormatIds
       /\ fuzzy_result # None
       /\ use_fuzzy
    THEN fuzzy_result
    ELSE entered

\* The arguments with which youtube_download_workflow and
\* download_video_parallel call download_video (no cookies, no archive file).
CallDownloadVideo(format_selection, ffmpeg_available, is_playlist) ==
    [pc |-> "configure",
     args |-> [format_selection |-> format_selection,
               ffmpeg_available |-> ffmpeg_available,
               cookies_file |-> None,
               cookies_from_browser |-> None,
               is_playlist |-> is_playlist,
               archive_file |-> None],
     ydl_opts |-> <<>>, printed |-> <<>>, result |-> FALSE]

\* The download_video call that has returned, as the caller sees it.
Applied(u) ==
    [url |-> u,
     format_selection |-> dv.args.format_selection,
     format |-> dv.ydl_opts["format"],
     success |-> dv.result]

selRest == <<trackerVars, mainVars, thr, issued, ps, tw, ft, ex>>

\* main: bulk mode (several URLs or --parallel) selects the format itself and
\* runs parallel_download_workflow; a single URL goes to
\* youtube_download_workflow.
SelMain ==
    /\ sel.pc = "main"
    /\ IF sel.n > 1 \/ sel.parallel
       THEN sel' = [sel EXCEPT !.pc = "parallel_download_workflow",
                               !.format_selection = MainFormatSelection(sel.args)]
       ELSE sel' = [sel EXCEPT !.pc = "youtube_download_workflow"]
    /\ UNCHANGED <<selRest, dv>>

\* youtube_download_workflow up to the format selection: URL checks,
\* get_video_info, --info
SelWorkflowInfo ==
    /\ sel.pc = "youtube_download_workflow"
    /\ \/ \E o \in {"Error: Invalid URL format", "Error: Invalid YouTube URL",
                    "Failed to retrieve information."} :
              sel' = [sel EXCEPT !.pc = "done", !.outcome = o]
       \/ \E p \in BOOLEAN :
              sel' = IF sel.args.info
                     THEN [sel EXCEPT !.pc = "done", !.is_playlist = p,
                                      !.outcome = "info"]
                     ELSE [sel EXCEPT !.pc = "format_selection",
                                      !.is_playlist = p]
    /\ UNCHANGED <<selRest, dv>>

\* youtube_download_workflow: determine format selection
SelWorkflowSelect ==
    /\ sel.pc = "format_selection"
    /\ LET f == WorkflowFlagSelection(sel.args, sel.ffmpeg_installed)
       IN IF f.format_selection # None
          THEN sel' = [sel EXCEPT !.pc = "download",
                                  !.format_selection = f.format_selection,
                                  !.printed = f.printed]
          ELSE IF sel.is_playlist
          THEN sel' = [sel EXCEPT !.pc = "download",
                                  !.format_selection = "best",
                                  !.printed = <<"Playlist detected. Using default format (best quality).">>]
          ELSE sel' = [sel EXCEPT !.pc = "prompt"]
    /\ UNCHANGED <<selRest, dv>>

\* youtube_download_workflow: display available formats and prompt for
\* selection, fuzzy search, and the check that the selected format does not
\* need a missing FFmpeg
SelWorkflowPrompt ==
    /\ sel.pc = "prompt"
    /\ \/ sel' = [sel EXCEPT !.pc = "done",
                             !.outcome = "No formats available for this video."]
       \/ \E entered \in PromptInputs, fuzzy_available \in BOOLEAN,
             fuzzy_result \in FuzzyResults, use_fuzzy \in BOOLEAN,
             alt_choice \in {"y", "n"} :
            LET fs == FuzzySelection(entered, fuzzy_available, fuzzy_result,
                                     use_fuzzy)
            IN IF Lower(fs) \in {"high", "mp3"} /\ ~sel.ffmpeg_installed
               THEN IF alt_choice = "y"
                    THEN sel' = [sel EXCEPT
                                   !.pc = "download",
                                   !.entered = fs,
                                   !.format_selection = "best",
                                   !.printed = <<"Warning: The option requires FFmpeg, which is not installed.",
                                                 "Using 'best' format instead.">>]
                    ELSE sel' = [sel EXCEPT
                                   !.pc = "done",
                                   !.entered = fs,
                                   !.printed = <<"Warning: The option requires FFmpeg, which is not installed.">>,
                                   !.outcome = "Download cancelled."]
               ELSE sel' = [sel EXCEPT !.pc = "download",
                                       !.entered = fs,
                                       !.format_selection = fs]
    /\ UNCHANGED <<selRest, dv>>

\* youtube_download_workflow: download the video or playlist
SelWorkflowDownload ==
    /\ sel.pc = "download"
    /\ sel' = [sel EXCEPT
                 !.pc = "downloading",
                 !.printed = @ \o
                    (IF sel.format_selection = "high"
                     THEN IF sel.ffmpeg_installed
                          THEN <<"Selected high quality mode - will download best video and audio streams and merge them">>
                          ELSE <<"FFmpeg not available - downloading best combined format instead">>
                     ELSE <<>>)]
    /\ dv' = CallDownloadVideo(sel.format_selection, sel.ffmpeg_installed,
                               sel.is_playlist)
    /\ UNCHANGED selRest

\* youtube_download_workflow: download_video has returned
SelWorkflowReturn ==
    /\ sel.pc = "downloading"
    /\ dv.pc = "returned"
    /\ sel' = [sel EXCEPT !.pc = "done",
                          !.applied = Append(@, Applied(1)),
                          !.outcome = IF dv.result
                                      THEN "Download completed successfully!"
                                      ELSE "Download failed."]
    /\ UNCHANGED <<selRest, dv>>

\* parallel_download_workflow: submit all download tasks, each with the
\* workflow's format_selection
SelParallelSubmit ==
    /\ sel.pc = "parallel_download_workflow"
    /\ sel' = [sel EXCEPT
                 !.pc = "tasks",
                 !.tasks = [i \in 1..sel.n |->
                              [url |-> i,
                               format_selection |-> sel.format_selection,
                               pc |-> "submitted"]]]
    /\ UNCHANGED <<selRest, dv>>

\* download_video_parallel: get_video_info, then download_video with the
\* task's format_selection; an exception of get_video_info ends the task.
\* The tasks are run one at a time here.
SelTaskStart(i) ==
    /\ sel.pc = "tasks"
    /\ i \in DOMAIN sel.tasks
    /\ sel.tasks[i].pc = "submitted"
    /\ \A j \in DOMAIN sel.tasks : sel.tasks[j].pc # "running"
    /\ \/ /\ sel' = [sel EXCEPT !.tasks[i].pc = "finished"]
          /\ UNCHANGED dv
       \/ /\ sel' = [sel EXCEPT !.tasks[i].pc = "running"]
          /\ dv' = CallDownloadVideo(sel.tasks[i].format_selection,
                                     sel.ffmpeg_installed, FALSE)
    /\ UNCHANGED selRest

\* download_video_parallel: download_video has returned
SelTaskReturn(i) ==
    /\ sel.pc = "tasks"
    /\ i \in DOMAIN sel.tasks
    /\ sel.tasks[i].pc = "running"
    /\ dv.pc = "returned"
    /\ sel' = [sel EXCEPT !.tasks[i].pc = "finished",
                          !.applied = Append(@, Applied(i))]
    /\ dv' = NoDownload
    /\ UNCHANGED selRest

\* parallel_download_workflow: every future has completed
SelParallelSummary ==
    /\ sel.pc = "tasks"
    /\ \A j \in DOMAIN sel.tasks : sel.tasks[j].pc = "finished"
    /\ sel' = [sel EXCEPT !.pc = "done", !.outcome = "Download Summary"]
    /\ UNCHANGED <<selRest, dv>>

InitSel ==
    /\ TrackerInit
    /\ tracker = FALSE
    /\ thr = <<>>
    /\ issued = [calls |-> 0, adds |-> 0, fails |-> 0]
    /\ NoMain
    /\ dv = NoDownload
    /\ ps = NoParse
    /\ tw = NoTranscription
    /\ ft = NoFormat
    /\ ex = NoExtract
    /\ \E a \in FlagArgs, n \in 1..MaxUrls, p \in BOOLEAN, f \in BOOLEAN :
        sel = [pc |-> "main", args |-> a, n |-> n, parallel |-> p,
               ffmpeg_installed |-> f, is_playlist |-> FALSE,
               format_selection |-> None, entered |-> None,
               printed |-> <<>>, tasks |-> <<>>, applied |-> <<>>,
               outcome |-> ""]

NextSel ==
    \/ SelMain
    \/ SelWorkflowInfo
    \/ SelWorkflowSelect
    \/ SelWorkflowPrompt
    \/ SelWorkflowDownload
    \/ SelWorkflowReturn
    \/ SelParallelSubmit
    \/ \E i \in Tasks : SelTaskStart(i)
    \/ \E i \in Tasks : SelTaskReturn(i)
    \/ SelParallelSummary
    \/ DownloadVideoConfigure
    \/ DownloadVideoSpecialFormat
    \/ DownloadVideoDownload

SpecSel == InitSel /\ [][NextSel]_vars

\* --------------------------------------------------- parse_subtitle_to_text
\* A str is the sequence of its characters. "WEBVTT" stands for the six
\* characters of that word: no other characters used here spell it, and no
\* operation below splits it.
Chars == {"a", "1", " ", "\n", "<", ">", "-", "{", "}", "WEBVTT"}
Whitespace == {" ", "\n"}
Digits == {"1"}

\* The strs of at most n characters.
RECURSIVE Strings(_)
Strings(n) ==
    IF n = 0 THEN {<<>>}
    ELSE LET shorter == Strings(n - 1)
         IN shorter \cup {Append(s, c) : s \in {t \in shorter : Len(t) = n - 1},
                                         c \in Chars}

\* str.split(sep)
RECURSIVE Split(_, _)
Split(s, sep) ==
    LET seps == {i \in 1..Len(s) : s[i] = sep}
    IN IF seps = {} THEN <<s>>
       ELSE LET i == CHOOSE i \in seps : \A j \in seps : i <= j
            IN <<SubSeq(s, 1, i - 1)>> \o Split(SubSeq(s, i + 1, Len(s)), sep)

\* str.strip()
RECURSIVE LStrip(_)
LStrip(s) ==
    IF s # <<>> /\ Head(s) \in Whitespace THEN LStrip(Tail(s)) ELSE s

RECURSIVE RStrip(_)
RStrip(s) ==
    IF s # <<>> /\ s[Len(s)] \in Whitespace
    THEN RStrip(SubSeq(s, 1, Len(s) - 1))
    ELSE s

Strip(s) == RStrip(LStrip(s))

\* str.isdigit(), str.startswith(p), p in str
IsDigit(s) == s # <<>> /\ \A i \in 1..Len(s) : s[i] \in Digits
StartsWith(s, p) == Len(s) >= Len(p) /\ SubSeq(s, 1, Len(p)) = p
Contains(s, p) ==
    \E i \in 1..(Len(s) - Len(p) + 1) : SubSeq(s, i, i + Len(p) - 1) = p

\* re.sub(open + '[^' + close + ']+' + close, '', s): from left to right, an
\* open followed by at least one character other than close and then a close
\* is removed.
RECURSIVE RemoveSpans(_, _, _)
RemoveSpans(s, open, close) ==
    IF s = <<>> THEN <<>>
    ELSE LET closes == {k \in 2..Len(s) : s[k] = close}
             first == IF closes = {} THEN 0
                      ELSE CHOOSE k \in closes : \A j \in closes : k <= j
         IN IF s[1] = open /\ first >= 3
            THEN RemoveSpans(SubSeq(s, first + 1, Len(s)), open, close)
            ELSE <<s[1]>> \o RemoveSpans(Tail(s), open, close)

\* The stripped lines the loop skips: empty lines, SRT sequence numbers, the
\* VTT header, timestamp lines, NOTE and STYLE blocks.
SkippedLine(line) ==
    \/ line = <<>>
    \/ IsDigit(line)
    \/ StartsWith(line, <<"WEBVTT">>)
    \/ StartsWith(line, <<"Kind:">>)
    \/ StartsWith(line, <<"Language:">>)
    \/ Contains(line, <<"-", "-", ">">>)
    \/ StartsWith(line, <<"NOTE">>)
    \/ StartsWith(line, <<"STYLE">>)

\* Remove HTML-like tags and VTT positioning tags, then strip.
CleanedLine(line) ==
    Strip(RemoveSpans(RemoveSpans(line, "<", ">"), "{", "}"))

\* text_lines after the first loop
RECURSIVE TextLines(_)
TextLines(lines) ==
    IF lines = <<>> THEN <<>>
    ELSE LET line == Strip(Head(lines))
             rest == TextLines(Tail(lines))
         IN IF SkippedLine(line) THEN rest
            ELSE IF CleanedLine(line) # <<>>
                 THEN <<CleanedLine(line)>> \o rest
                 ELSE rest

\* Remove consecutive duplicate lines
RECURSIVE Deduplicated(_)
Deduplicated(text_lines) ==
    IF text_lines = <<>> THEN <<>>
    ELSE LET before == Deduplicated(SubSeq(text_lines, 1, Len(text_lines) - 1))
             line == text_lines[Len(text_lines)]
         IN IF before = <<>> \/ line # before[Len(before)]
            THEN Append(before, line)
            ELSE before

\* sep.join(lines)
RECURSIVE Join(_, _)
Join(lines, sep) ==
    IF lines = <<>> THEN <<>>
    ELSE IF Len(lines) = 1 THEN lines[1]
    ELSE lines[1] \o <<sep>> \o Join(Tail(lines), sep)

\* The variant that collapses repetitions before the markup is removed.
parse_subtitle_to_text_CollapseFirst(subtitle_content) ==
    Join(TextLines(Deduplicated(Split(subtitle_content, "\n"))), " ")
parse_subtitle_to_text(subtitle_content) ==
    Join(Deduplicated(TextLines(Split(subtitle_content, "\n"))), " ")

psRest == <<trackerVars, mainVars, thr, issued, dv, sel, tw, ft, ex>>

\* parse_subtitle_to_text(subtitle_content) returns text
ParseSubtitle ==
    /\ ps.pc = "call"
    /\ ps' = [ps EXCEPT !.pc = "returned",
                        !.text = parse_subtitle_to_text(ps.subtitle_content)]
    /\ UNCHANGED psRest

\* parse_subtitle_to_text applied to the text it returned
ParseSubtitleAgain ==
    /\ ps.pc = "returned"
    /\ ps' = [ps EXCEPT !.pc = "reparsed",
                        !.again = parse_subtitle_to_text(ps.text)]
    /\ UNCHANGED psRest

InitParse ==
    /\ TrackerInit
    /\ tracker = FALSE
    /\ thr = <<>>
    /\ issued = [calls |-> 0, adds |-> 0, fails |-> 0]
    /\ NoMain
    /\ dv = NoDownload
    /\ sel = NoSelection
    /\ tw = NoTranscription
    /\ ft = NoFormat
    /\ ex = NoExtract
    /\ \E r \in Strings(MaxChars) :
        ps = [pc |-> "call", subtitle_content |-> r, text |-> <<>>,
              again |-> <<>>]

NextParse ==
    \/ ParseSubtitle
    \/ ParseSubtitleAgain

SpecParse == InitParse /\ [][NextParse]_vars

\* Subtitle files given line by line: caption lines with and without markup,
\* sequence numbers, headers, timestamp lines, blank and markup-only lines.
LineSamples ==
    {<<"a">>, <<"<", "a", ">", "a">>, <<"a", "{", "a", "}">>,
     <<"-">>, <<"1">>, <<" ">>, <<"WEBVTT">>,
     <<"a", "-", "-", ">">>, <<"<", "a", ">">>}

\* The files of at most n lines.
RECURSIVE Files(_)
Files(n) ==
    IF n = 0 THEN {<<>>}
    ELSE LET shorter == Files(n - 1)
         IN shorter \cup {Append(f, l) : f \in {g \in shorter : Len(g) = n - 1},
                                         l \in LineSamples}

InitLines ==
    /\ TrackerInit
    /\ tracker = FALSE
    /\ thr = <<>>
    /\ issued = [calls |-> 0, adds |-> 0, fails |-> 0]
    /\ NoMain
    /\ dv = NoDownload
    /\ sel = NoSelection
    /\ tw = NoTranscription
    /\ ft = NoFormat
    /\ ex = NoExtract
    /\ \E f \in Files(MaxLines) :
        ps = [pc |-> "call", subtitle_content |-> Join(f, "\n"),
              text |-> <<>>, again |-> <<>>]

SpecLines == InitLines /\ [][NextParse]_vars

\* --------------------------------------------------- transcription_workflow
\* An optional value: None, or the value.
Absent == <<>>
Some(x) == <<x>>

\* The truth value of an optional str or list
TruthyValue(o) == o # Absent /\ o[1] # <<>>

WHISPER_MODELS == {"tiny", "base", "small", "medium", "large"}
TRANSCRIPTION_FORMATS == {"txt", "srt", "vtt"}
SUPPORTED_MEDIA_EXTENSIONS ==
    {".mp3", ".wav", ".flac", ".m4a", ".ogg", ".aac", ".wma", ".opus",
     ".mp4", ".mkv", ".avi", ".mov", ".webm", ".flv", ".wmv", ".m4v", ".ts"}

\* What the user may enter as the source: its extension
\* (os.path.splitext(path)[1]), whether os.path.isfile(path) holds, and
\* whether it starts with 'http://' or 'https://'. The filesystem does not
\* change during the run.
Sources ==
    [ext : {".mp3", ".MP4", ".txt", ""}, isfile : BOOLEAN, http : BOOLEAN]
NoSource == [ext |-> "", isfile |-> FALSE, http |-> FALSE]

\* str.lower() on the extensions above
LowerExt(ext) == IF ext = ".MP4" THEN ".mp4" ELSE ext

\* is_local_media_file(path)
is_local_media_file(source) ==
    IF ~source.isfile THEN FALSE
    ELSE LowerExt(source.ext) \in SUPPORTED_MEDIA_EXTENSIONS

\* Determine if source is a local file or URL
IsLocal_MediaOnly(source) == is_local_media_file(source)
IsLocal(source) ==
    is_local_media_file(source) \/ (source.isfile /\ ~source.http)

\* The branch taken for the source: local file or URL transcription
Branch_AlwaysUrl(is_local) == "url"
Branch(is_local) == IF is_local THEN "local" ELSE "url"

\* The error with which the Whisper path stops when Whisper or FFmpeg is
\* missing (None if neither is), for a local file and for a URL.
MissingDependency_WhisperOnly(branch, whisper_available, ffmpeg_available) ==
    IF ~whisper_available
    THEN IF branch = "local"
         THEN "Error: Whisper is required for local file transcription."
         ELSE "Error: Whisper is not installed and no subtitles were found."
    ELSE None
MissingDependency(branch, whisper_available, ffmpeg_available) ==
    IF ~whisper_available
    THEN IF branch = "local"
         THEN "Error: Whisper is required for local file transcription."
         ELSE "Error: Whisper is not installed and no subtitles were found."
    ELSE IF ~ffmpeg_available
    THEN IF branch = "local"
         THEN "Error: FFmpeg is required for Whisper transcription."
         ELSE "Error: FFmpeg is required for audio download and Whisper transcription."
    ELSE None

\* Whether the user is asked to choose between the subtitles found and Whisper
OfferChoice_Always(whisper_available, ffmpeg_available) == TRUE
OfferChoice(whisper_available, ffmpeg_available) ==
    whisper_available /\ ffmpeg_available

\* Subtitle files extract_subtitles_from_url may return: never blank.
RawSubtitles ==
    {<<"1", "\n", "-", "-", ">", "\n", "<", "a", ">", "a">>,
     <<"1", "\n", "-", "-", ">">>}

\* What model.transcribe returns: a dict with the text and the segments it is
\* made of.
WhisperResults ==
    {[text |-> <<" ", "a">>,
      segments |-> <<[start |-> 0, end |-> 1, text |-> <<" ", "a">>]>>,
      language |-> "en"],
     [text |-> <<>>, segments |-> <<>>, language |-> "en"]}

Call(fn, on) == [fn |-> fn, on |-> on]

twRest == <<trackerVars, mainVars, thr, issued, dv, sel, ps, ft, ex>>

TwReturn(message) == tw' = [tw EXCEPT !.pc = "done", !.outcome = message]

\* transcription_workflow: get the input source (clipboard or prompt)
TwSource ==
    /\ tw.pc = "source"
    /\ \/ TwReturn("Error: No input provided.")
       \/ \E src \in Sources :
            tw' = [tw EXCEPT !.pc = "classify", !.source = src]
    /\ UNCHANGED twRest

\* transcription_workflow: determine if source is a local file or URL
TwClassify ==
    /\ tw.pc = "classify"
    /\ LET is_local == IsLocal(tw.source)
       IN IF is_local /\ ~tw.source.isfile
          THEN TwReturn("Error: File not found.")
          ELSE tw' = [tw EXCEPT !.pc = "preferences", !.is_local = is_local]
    /\ UNCHANGED twRest

\* transcription_workflow: language and output format preferences
TwPreferences ==
    /\ tw.pc = "preferences"
    /\ \E language_input \in {"", "es"},
          format_input \in {"", "srt", "vtt", "pdf"} :
         tw' = [tw EXCEPT
                  !.pc = Branch(tw.is_local),
                  !.language = IF language_input # "" THEN language_input
                               ELSE None,
                  !.sub_language = IF language_input # "" THEN language_input
                                   ELSE "en",
                  !.format_input = IF format_input \notin TRANSCRIPTION_FORMATS
                                   THEN "txt" ELSE format_input]
    /\ UNCHANGED twRest

\* transcription_workflow, local file: Whisper and FFmpeg are required
TwLocal ==
    /\ tw.pc = "local"
    /\ LET missing == MissingDependency("local", tw.whisper_available,
                                        tw.ffmpeg_available)
       IN IF missing # None
          THEN tw' = [tw EXCEPT !.pc = "done", !.path = "whisper",
                                !.outcome = missing]
          ELSE tw' = [tw EXCEPT !.pc = "local_whisper", !.path = "whisper"]
    /\ UNCHANGED twRest

\* transcription_workflow, local file: select the model (always one of
\* WHISPER_MODELS) and transcribe the file; transcribe_with_whisper returns
\* None on any exception, and a result dict is true.
TwLocalWhisper ==
    /\ tw.pc = "local_whisper"
    /\ \E model_size \in {"base", "tiny"} :
        \/ tw' = [tw EXCEPT
                    !.pc = "done",
                    !.model_size = model_size,
                    !.calls = Append(@, Call("transcribe_with_whisper", "source")),
                    !.outcome = "Transcription failed."]
        \/ \E result \in WhisperResults :
            tw' = [tw EXCEPT
                     !.pc = "save",
                     !.model_size = model_size,
                     !.calls = Append(@, Call("transcribe_with_whisper", "source")),
                     !.transcription_text = Some(result.text),
                     !.transcription_segments = Some(result.segments)]
    /\ UNCHANGED twRest

\* transcription_workflow, URL: get video info for the title; an exception
\* other than DownloadError leaves the workflow.
TwUrlInfo ==
    /\ tw.pc = "url"
    /\ \/ tw' = [tw EXCEPT !.pc = "subtitles", !.source_title = "title"]
       \/ tw' = [tw EXCEPT !.pc = "subtitles", !.source_title = "transcription"]
       \/ TwReturn("Error: get_video_info")
    /\ UNCHANGED twRest

\* transcription_workflow, URL, step 1: try subtitle extraction first
TwUrlSubtitles ==
    /\ tw.pc = "subtitles"
    /\ \E found \in {Absent} \cup {Some(r) : r \in RawSubtitles} :
         tw' = [tw EXCEPT
                  !.pc = IF found # Absent THEN "choice" ELSE "url_whisper",
                  !.calls = Append(@, Call("extract_subtitles_from_url", "source")),
                  !.subtitles = found,
                  !.sub_text = found]
    /\ UNCHANGED twRest

\* The variant that goes on to Whisper whenever there is no text.
NeedsWhisper_NoText(transcription_text) == ~TruthyValue(transcription_text)

\* Step 2 is entered `if transcription_text is None`.
NeedsWhisper(transcription_text) == transcription_text = Absent

\* transcription_workflow, URL: subtitles found; use them, or ask
TwChoice ==
    /\ tw.pc = "choice"
    /\ LET text == Some(parse_subtitle_to_text(tw.sub_text[1]))
           use == [tw EXCEPT
                     !.pc = IF NeedsWhisper(text) THEN "url_whisper" ELSE "save",
                     !.path = "subtitles",
                     !.transcription_text = text,
                     !.transcription_segments = Absent]
       IN IF OfferChoice(tw.whisper_available, tw.ffmpeg_available)
          THEN \E sub_choice \in {"", "1", "2"} :
                 IF sub_choice = "2"
                 THEN tw' = [tw EXCEPT !.pc = "url_whisper",
                                       !.offered = TRUE,
                                       !.sub_choice = sub_choice,
                                       !.sub_text = Absent]
                 ELSE tw' = [use EXCEPT !.offered = TRUE,
                                        !.sub_choice = sub_choice]
          ELSE tw' = use
    /\ UNCHANGED twRest

\* transcription_workflow, URL, step 2: no subtitles or the user chose
\* Whisper; Whisper and FFmpeg are required, then the model is selected.
TwUrlWhisper ==
    /\ tw.pc = "url_whisper"
    /\ LET missing == MissingDependency("url", tw.whisper_available,
                                        tw.ffmpeg_available)
       IN IF missing # None
          THEN tw' = [tw EXCEPT !.pc = "done", !.path = "whisper",
                                !.outcome = missing]
          ELSE \E model_size \in {"base", "tiny"} :
                 tw' = [tw EXCEPT !.pc = "download_audio", !.path = "whisper",
                                  !.model_size = model_size]
    /\ UNCHANGED twRest

\* transcription_workflow, URL: download audio from the URL
TwDownloadAudio ==
    /\ tw.pc = "download_audio"
    /\ \/ tw' = [tw EXCEPT
                   !.pc = "done",
                   !.calls = Append(@, Call("download_audio_for_transcription", "source")),
                   !.outcome = "Error: Failed to download audio."]
       \/ tw' = [tw EXCEPT
                   !.pc = "url_transcribe",
                   !.calls = Append(@, Call("download_audio_for_transcription", "source")),
                   !.audio_path = Some("transcription_audio.wav"),
                   !.audio_file = TRUE]
    /\ UNCHANGED twRest

\* transcription_workflow, URL: transcribe with Whisper; without a result the
\* workflow returns.
TwUrlTranscribe ==
    /\ tw.pc = "url_transcribe"
    /\ \/ tw' = [tw EXCEPT
                   !.pc = "done",
                   !.calls = Append(@, Call("transcribe_with_whisper", "audio_path")),
                   !.outcome = "Transcription failed."]
       \/ \E result \in WhisperResults :
            tw' = [tw EXCEPT
                     !.pc = "cleanup",
                     !.calls = Append(@, Call("transcribe_with_whisper", "audio_path")),
                     !.transcription_text = Some(result.text),
                     !.transcription_segments = Some(result.segments)]
    /\ UNCHANGED twRest

\* transcription_workflow, URL: clean up temporary audio file; an OSError of
\* os.remove is ignored.
TwCleanup ==
    /\ tw.pc = "cleanup"
    /\ \E removed \in BOOLEAN :
         tw' = [tw EXCEPT !.pc = "save",
                          !.audio_file = IF removed THEN FALSE ELSE @]
    /\ UNCHANGED twRest

\* transcription_workflow: no text, or preview and save_transcription
TwSave ==
    /\ tw.pc = "save"
    /\ IF ~TruthyValue(tw.transcription_text)
       THEN TwReturn("No transcription text was generated.")
       ELSE \E saved_path \in BOOLEAN :
              tw' = [tw EXCEPT
                       !.pc = IF TruthyValue(tw.transcription_segments)
                              THEN "save_more" ELSE "done",
                       !.calls = Append(@, Call("save_transcription", tw.format_input)),
                       !.saved = IF saved_path THEN {tw.format_input} ELSE {},
                       !.outcome = IF saved_path THEN "Transcription saved"
                                   ELSE "Failed to save transcription file."]
    /\ UNCHANGED twRest

\* transcription_workflow: save in additional formats
TwSaveMore ==
    /\ tw.pc = "save_more"
    /\ \/ tw' = [tw EXCEPT !.pc = "done"]
       \/ \E written \in SUBSET (TRANSCRIPTION_FORMATS \ {tw.format_input}) :
            tw' = [tw EXCEPT !.pc = "done", !.saved = @ \cup written]
    /\ UNCHANGED twRest

InitTranscribe ==
    /\ TrackerInit
    /\ tracker = FALSE
    /\ thr = <<>>
    /\ issued = [calls |-> 0, adds |-> 0, fails |-> 0]
    /\ NoMain
    /\ dv = NoDownload
    /\ sel = NoSelection
    /\ ps = NoParse
    /\ ft = NoFormat
    /\ ex = NoExtract
    /\ \E w \in BOOLEAN, f \in BOOLEAN :
        tw = [pc |-> "source", whisper_available |-> w, ffmpeg_available |-> f,
              source |-> NoSource, is_local |-> FALSE, language |-> None,
              sub_language |-> "en", format_input |-> "txt",
              model_size |-> None, source_title |-> None,
              subtitles |-> Absent, sub_text |-> Absent, offered |-> FALSE,
              sub_choice |-> "", transcription_text |-> Absent,
              transcription_segments |-> Absent, audio_path |-> Absent,
              audio_file |-> FALSE, path |-> "", calls |-> <<>>,
              saved |-> {}, outcome |-> ""]

NextTranscribe ==
    \/ TwSource
    \/ TwClassify
    \/ TwPreferences
    \/ TwLocal
    \/ TwLocalWhisper
    \/ TwUrlInfo
    \/ TwUrlSubtitles
    \/ TwChoice
    \/ TwUrlWhisper
    \/ TwDownloadAudio
    \/ TwUrlTranscribe
    \/ TwCleanup
    \/ TwSave
    \/ TwSaveMore

SpecTranscribe == InitTranscribe /\ [][NextTranscribe]_vars

\* ------------------------------------------- format_timestamp_srt / _vtt

ftRest == <<trackerVars, mainVars, thr, issued, dv, sel, ps, tw, ex>>

RECURSIVE Pow2(_)
Pow2(n) == IF n = 0 THEN 1 ELSE 2 * Pow2(n - 1)

\* 2^n modulo 125.
RECURSIVE Pow2Mod125(_)
Pow2Mod125(n) == IF n = 0 THEN 1 ELSE (2 * Pow2Mod125(n - 1)) % 125

\* The binary exponent of t/1000 (t > 0): 2^e <= t/1000 < 2^(e+1).
RECURSIVE ExponentFrom(_, _)
ExponentFrom(t, e) ==
    IF e >= 0
    THEN IF t < 1000 * Pow2(e + 1) THEN e ELSE ExponentFrom(t, e + 1)
    ELSE IF t * Pow2(-e) >= 1000 THEN e ELSE ExponentFrom(t, e - 1)

Exponent(t) == IF t >= 1000 THEN ExponentFrom(t, 0) ELSE ExponentFrom(t, -1)

\* The segment times are Python floats (IEEE 754 doubles) in seconds. The
\* double nearest to t/1000 has the 53-bit significand nearest to
\* t * 2^(49-e) / 125, so it is (t + err * 2^(e-49)) / 1000 with err the
\* signed distance, in 125ths, from t * 2^(49-e) / 125 to that significand.
RoundingError(t) ==
    IF t = 0 THEN 0
    ELSE LET r == ((t % 125) * Pow2Mod125(49 - Exponent(t))) % 125
         IN IF r = 0 THEN 0 ELSE IF 2 * r < 125 THEN -r ELSE 125 - r

Seconds(t) ==
    [whole |-> t \div 1000, ms |-> t % 1000,
     exp |-> IF t = 0 THEN 0 ELSE Exponent(t), err |-> RoundingError(t)]

\* k with 2^k < ms <= 2^(k+1), for ms >= 1: the doubles just below ms are
\* 2^(k-52) apart.
RECURSIVE BinadeBelow(_, _)
BinadeBelow(ms, k) ==
    IF Pow2(k + 1) >= ms THEN k ELSE BinadeBelow(ms, k + 1)

\* int((seconds % 1) * 1000): seconds % 1 is exact, the product
\* ms + err * 2^(e-49) is rounded to the nearest double and int() truncates
\* it. A product below ms reaches ms only when it is within half a spacing
\* of it, that is when |err| <= 2^(k-e-4).
Millis(seconds) ==
    IF seconds.err >= 0 THEN seconds.ms
    ELSE LET n == BinadeBelow(seconds.ms, -1) - seconds.exp - 4
         IN IF n >= 0 /\ -seconds.err <= Pow2(n)
            THEN seconds.ms ELSE seconds.ms - 1

DecimalDigit(d) == <<"0", "1", "2", "3", "4", "5", "6", "7", "8", "9">>[d + 1]

RECURSIVE Decimal(_)
Decimal(n) ==
    IF n < 10 THEN <<DecimalDigit(n)>>
    ELSE Append(Decimal(n \div 10), DecimalDigit(n % 10))

\* f"{n:0wd}": the decimal digits of n, zero-padded to at least w.
RECURSIVE ZeroPadded(_, _)
ZeroPadded(digits, w) ==
    IF Len(digits) >= w THEN digits ELSE ZeroPadded(<<"0">> \o digits, w)

Timestamp(hours, minutes, secs, millis, sep) ==
    ZeroPadded(Decimal(hours), 2) \o <<":">> \o
    ZeroPadded(Decimal(minutes), 2) \o <<":">> \o
    ZeroPadded(Decimal(secs), 2) \o <<sep>> \o
    ZeroPadded(Decimal(millis), 3)

format_timestamp_srt(seconds) ==
    Timestamp(seconds.whole \div 3600, (seconds.whole % 3600) \div 60,
              seconds.whole % 60, Millis(seconds), ",")

format_timestamp_vtt(seconds) ==
    Timestamp(seconds.whole \div 3600, (seconds.whole % 3600) \div 60,
              seconds.whole % 60, Millis(seconds), ".")

\* save_transcription writes a segment's time in the SRT file ...
FormatTimestampSrt ==
    /\ ft.pc = "call"
    /\ ft' = [ft EXCEPT !.pc = "srt",
                        !.srt = format_timestamp_srt(Seconds(ft.t))]
    /\ UNCHANGED ftRest

\* ... and in the VTT file.
FormatTimestampVtt ==
    /\ ft.pc = "srt"
    /\ ft' = [ft EXCEPT !.pc = "done",
                        !.vtt = format_timestamp_vtt(Seconds(ft.t))]
    /\ UNCHANGED ftRest

\* Times in whole milliseconds: every one up to MaxMillis, and times around
\* the minute, the hour, the day and a hundred hours.
Times ==
    (0..MaxMillis) \cup
    {h * 3600000 + m * 60000 + s * 1000 + ms :
        h \in {0, 1, 24, 100}, m \in {0, 59}, s \in {0, 59},
        ms \in {0, 1, 2, 500, 999}}

InitTimestamp ==
    /\ TrackerInit
    /\ tracker = FALSE
    /\ thr = <<>>
    /\ issued = [calls |-> 0, adds |-> 0, fails |-> 0]
    /\ NoMain
    /\ dv = NoDownload
    /\ sel = NoSelection
    /\ ps = NoParse
    /\ tw = NoTranscription
    /\ ex = NoExtract
    /\ \E t \in Times : ft = [pc |-> "call", t |-> t, srt |-> <<>>, vtt |-> <<>>]

NextTimestamp == FormatTimestampSrt \/ FormatTimestampVtt

SpecTimestamp == InitTimestamp /\ [][NextTimestamp]_vars

\* ------------------------------------------- extract_subtitles_from_url

exRest == <<trackerVars, mainVars, thr, issued, dv, sel, ps, tw, ft>>

\* Language keys of caption tracks, and the requested language.
LangKeys == {<<"e", "n">>, <<"e", "n", "-", "U", "S">>, <<"d", "e">>}

Languages == {<<"e", "n">>}

\* The lists of entries a track can have: none, vtt only, vtt and srt, and
\* a format that is neither and carries no url.
SubsLists ==
    {<<>>,
     <<[ext |-> "vtt", url |-> "vtt-url"]>>,
     <<[ext |-> "vtt", url |-> "vtt-url"], [ext |-> "srt", url |-> "srt-url"]>>,
     <<[ext |-> "json3", url |-> None]>>}

\* The dicts of at most n tracks: a dict keeps its keys in insertion order,
\* so it is the sequence of its items, no key occurring twice.
RECURSIVE TrackDicts(_)
TrackDicts(n) ==
    IF n = 0 THEN {<<>>}
    ELSE LET shorter == TrackDicts(n - 1)
         IN shorter \cup
            {Append(d, [key |-> k, subs_list |-> l]) :
                d \in {g \in shorter : Len(g) = n - 1 /\ n - 1 < Cardinality(LangKeys)},
                k \in LangKeys, l \in SubsLists}

UniqueKeys(d) == \A i, j \in 1..Len(d) : d[i].key = d[j].key => i = j

\* for lang_key, subs_list in tracks.items(): if lang_key.startswith(language)
Matching(tracks, language) ==
    LET Match(item) == StartsWith(item.key, language)
    IN SelectSeq(tracks, Match)

\* The variant that looks at the automatic captions first.
AvailableSubs_AutoFirst(subtitles, auto_captions, language) ==
    IF Matching(auto_captions, language) # <<>>
    THEN [source |-> "automatic_captions",
          items |-> Matching(auto_captions, language)]
    ELSE [source |-> "subtitles", items |-> Matching(subtitles, language)]

\* available_subs: the matching manual subtitles, and only if there are none
\* the matching automatic captions.
AvailableSubs(subtitles, auto_captions, language) ==
    IF Matching(subtitles, language) # <<>>
    THEN [source |-> "subtitles", items |-> Matching(subtitles, language)]
    ELSE [source |-> "automatic_captions",
          items |-> Matching(auto_captions, language)]

ExReturn(result) == ex' = [ex EXCEPT !.pc = "done", !.result = result]

\* info = ydl.extract_info(url, download=False); if not info: return
ExExtractInfo ==
    /\ ex.pc = "extract_info"
    /\ \/ ex' = [ex EXCEPT !.pc = "select"]
       \/ ExReturn(Absent)
    /\ UNCHANGED exRest

\* available_subs, and the first matching language
ExSelect ==
    /\ ex.pc = "select"
    /\ LET available_subs ==
               AvailableSubs(ex.subtitles, ex.auto_captions, ex.language)
       IN IF available_subs.items = <<>>
          THEN ExReturn(Absent)
          ELSE ex' = [ex EXCEPT !.pc = "format",
                                !.source = available_subs.source,
                                !.lang_key = available_subs.items[1].key,
                                !.subs_list = available_subs.items[1].subs_list]
    /\ UNCHANGED exRest

\* for sub_entry in subs_list: the first srt entry, else the last vtt entry
RECURSIVE BestFormat(_, _)
BestFormat(subs_list, found) ==
    IF subs_list = <<>> THEN found
    ELSE IF Head(subs_list).ext = "srt"
         THEN [sub_url |-> Head(subs_list).url, sub_ext |-> "srt"]
         ELSE IF Head(subs_list).ext = "vtt"
              THEN BestFormat(Tail(subs_list),
                              [sub_url |-> Head(subs_list).url, sub_ext |-> "vtt"])
              ELSE BestFormat(Tail(subs_list), found)

\* the best format, else the first entry; without a url nothing is found
ExFormat ==
    /\ ex.pc = "format"
    /\ LET best == BestFormat(ex.subs_list, [sub_url |-> None, sub_ext |-> "srt"])
           chosen == IF ~Truthy(best.sub_url) /\ ex.subs_list # <<>>
                     THEN [sub_url |-> ex.subs_list[1].url,
                           sub_ext |-> ex.subs_list[1].ext]
                     ELSE best
       IN IF ~Truthy(chosen.sub_url)
          THEN ExReturn(Absent)
          ELSE ex' = [ex EXCEPT !.pc = "download",
                                !.sub_url = chosen.sub_url,
                                !.sub_ext = chosen.sub_ext]
    /\ UNCHANGED exRest

\* ydl2.download([url]) with subtitleslangs [lang_key]; it may raise
ExDownload ==
    /\ ex.pc = "download"
    /\ LET asked == [ex EXCEPT
                       !.downloads = Append(@, [subtitleslangs |-> <<ex.lang_key>>,
                                                subtitlesformat |-> ex.sub_ext])]
       IN \/ ex' = [asked EXCEPT !.pc = "read"]
          \/ ex' = [asked EXCEPT !.pc = "done", !.result = Absent]
    /\ UNCHANGED exRest

\* the first downloaded file with text in it, if any
ExRead ==
    /\ ex.pc = "read"
    /\ \/ \E text \in RawSubtitles : ExReturn(Some(text))
       \/ ExReturn(Absent)
    /\ UNCHANGED exRest

InitExtract ==
    /\ TrackerInit
    /\ tracker = FALSE
    /\ thr = <<>>
    /\ issued = [calls |-> 0, adds |-> 0, fails |-> 0]
    /\ NoMain
    /\ dv = NoDownload
    /\ sel = NoSelection
    /\ ps = NoParse
    /\ tw = NoTranscription
    /\ ft = NoFormat
    /\ \E language \in Languages,
          subtitles \in {d \in TrackDicts(MaxTracks) : UniqueKeys(d)},
          auto_captions \in {d \in TrackDicts(MaxTracks) : UniqueKeys(d)} :
        ex = [pc |-> "extract_info", language |-> language,
              subtitles |-> subtitles, auto_captions |-> auto_captions,
              source |-> "", lang_key |-> <<>>, subs_list |-> <<>>,
              sub_url |-> None, sub_ext |-> "srt", downloads |-> <<>>,
              result |-> Absent]

NextExtract ==
    \/ ExExtractInfo
    \/ ExSelect
    \/ ExFormat
    \/ ExDownload
    \/ ExRead

SpecExtract == InitExtract /\ [][NextExtract]_vars

\* ------------------------------------------------------------- properties
\* Threads in the middle of add_result's updates.
InAddResult ==
    {t \in DOMAIN thr : thr[t].pc \in {"ar_load_completed", "ar_store_completed",
                                       "ar_load_failed", "ar_store_failed",
                                       "ar_append", "ar_release"}}

FailedRecords == {k \in 1..Len(results) : ~results[k].success}

AllReturned == \A t \in Callers : thr[t].pc = "idle"

\* C1: once every add_result call of every thread has returned, completed is
\* the number of calls, failed the number of calls with success=False, and
\* results holds one record per call.
C1_AllCallsCounted ==
    AllReturned =>
        /\ completed = issued.adds
        /\ failed = issued.fails
        /\ Len(results) = completed
        /\ Cardinality(FailedRecords) = issued.fails

\* C1 witness: the threads have returned from MaxCalls add_result calls, one of
\* them a failure, made by more than one thread.
C1_Witness ==
    /\ AllReturned
    /\ issued.adds = MaxCalls
    /\ issued.fails = 1
    /\ completed = MaxCalls
    /\ \E t \in Callers, u \in Callers : t # u /\ thr[t].url > 0 /\ thr[u].url > 0

\* What a thread sees of the tracker is consistent whenever no thread is
\* inside add_result's with block.
Observable == InAddResult = {}

TrackerConsistent ==
    /\ failed <= completed
    /\ Len(results) = completed
    /\ Cardinality(FailedRecords) = failed

SnapshotsConsistent ==
    \A t \in DOMAIN thr :
        /\ thr[t].snap.failed <= thr[t].snap.completed
        /\ thr[t].snap.success >= 0
        /\ thr[t].pc \notin {"gs_completed", "gs_failed", "gs_total", "gs_success"}
              => thr[t].snap.success = thr[t].snap.completed - thr[t].snap.failed
        /\ Len(thr[t].got) <= completed

\* The observers (get_status, get_results) only read while they own the lock.
ObserversExclusive ==
    \A t \in DOMAIN thr :
        thr[t].pc \in {"gs_completed", "gs_failed", "gs_total", "gs_success",
                       "gr_copy"} => /\ lock = {t}
                                     /\ Observable

\* C2: every state an observer can see has failed <= completed and
\* len(results) = completed, no snapshot reports failed > completed or a
\* negative success count, and completed and failed never decrease.
C2_ObservedConsistent ==
    /\ [](ObserversExclusive /\ SnapshotsConsistent
          /\ (Observable => TrackerConsistent))
    /\ [][completed' >= completed /\ failed' >= failed]_vars

\* C2 witness: a get_status snapshot taken after a failed add_result, while
\* another thread is now inside its next add_result.
C2_Witness ==
    \E t \in Callers, u \in Callers :
        /\ t # u
        /\ thr[t].pc = "idle"
        /\ thr[t].snap = [completed |-> 1, failed |-> 1, total |-> 0, success |-> 0]
        /\ thr[u].pc = "ar_append"
        /\ completed = 2

\* Positions of the coordinator at which the final summary is being computed
\* or has been computed.
SummaryPcs ==
    {"get_status", "gs_completed", "gs_failed", "gs_total", "gs_success",
     "gs_release", "summary", "get_results", "gr_copy", "gr_release", "failures"}

InSummary ==
    \/ thr[Main].pc \in SummaryPcs
    \/ At("done") /\ outcome = "Download Summary"

\* status has been assigned from tracker.get_status()
StatusRead ==
    \/ thr[Main].pc \in {"get_results", "gr_copy", "gr_release", "failures"}
    \/ At("done") /\ outcome = "Download Summary"

Submitted == 1..Len(urls)

RecordsOf(u) == {k \in 1..Len(results) : results[k].url = u}

TotalSet ==
    /\ tracker
    /\ thr[Main].pc \notin {"parallel_download_workflow", "set_total", "st_store"}

\* C3: in a bulk run, every tracker state after set_total(len(urls)) has
\* failed <= completed <= total.
C3_CountsOrdered ==
    (Main \in DOMAIN thr /\ TotalSet) =>
        /\ total = Len(urls)
        /\ failed <= completed
        /\ completed <= total

\* C3 witness: a bulk run in which one task has recorded a failure while
\* another is inside add_result.
C3_Witness ==
    /\ Main \in DOMAIN thr
    /\ TotalSet
    /\ failed = 1
    /\ completed = 2
    /\ total = 2
    /\ InAddResult # {}

\* C4: the summary is computed only after every submitted task has finished;
\* the status it is computed from has completed = total = len(urls) and
\* success + failed = total, with exactly one result record per URL.
C4_SummaryAfterBarrier ==
    Main \in DOMAIN thr =>
        /\ InSummary =>
              /\ \A i \in Submitted : thr[i].pc = "finished"
              /\ Len(futures) = Len(urls)
              /\ Running = {}
        /\ (At("summary") \/ StatusRead) =>
              LET st == IF At("summary") THEN thr[Main].snap ELSE status IN
              /\ st.completed = Len(urls)
              /\ st.total = Len(urls)
              /\ st.success + st.failed = st.total
              /\ Len(results) = Len(urls)
              /\ \A i \in Submitted : Cardinality(RecordsOf(urls[i])) = 1

\* C4 witness: the summary of a two-URL run, one success and one failure.
C4_Witness ==
    /\ Main \in DOMAIN thr
    /\ At("done")
    /\ outcome = "Download Summary"
    /\ Len(urls) = 2
    /\ status = [completed |-> 2, failed |-> 1, total |-> 2, success |-> 1]

\* The tasks whose attempt failed, by returning failure or by raising.
FailedTasks == {i \in Submitted : ~thr[i].success}

ListedFailures ==
    {[url |-> failures[k].url, message |-> failures[k].message] :
        k \in 1..Len(failures)}

\* C5: for n URLs of which k fail (returned failure or raised), every URL is
\* attempted and the final summary reports total = n, succeeded = n - k,
\* failed = k, with each failed URL and its message in the failure list, for
\* every worker count and interleaving.
C5_CoordinatorIsolation ==
    (Main \in DOMAIN thr /\ At("done") /\ outcome = "Download Summary") =>
        LET n == Len(urls)
            k == Cardinality(FailedTasks)
        IN /\ \A i \in Submitted :
                 /\ thr[i].pc = "finished"
                 /\ thr[i].success => thr[i].dl
           /\ status.total = n
           /\ status.failed = k
           /\ status.success = n - k
           /\ Len(failures) = k
           /\ ListedFailures =
                 {[url |-> urls[i], message |-> thr[i].message] : i \in FailedTasks}

\* C5 witness: two URLs, the first download raises, the second succeeds after
\* it, with a single worker.
C5_Witness ==
    /\ Main \in DOMAIN thr
    /\ At("done")
    /\ outcome = "Download Summary"
    /\ executor.max_workers = 1
    /\ Len(urls) = 2
    /\ thr[1].message = "Error: download_video"
    /\ thr[2].success
    /\ failures = <<[url |-> urls[1], message |-> "Error: download_video"]>>

ErrorMessages == {"Error: get_video_info", "Error: download_video"}

Raised(i) == thr[i].message \in ErrorMessages

\* The step in which a task's attempt raises: the handler calls add_result
\* and nothing but that task changes.
RaiseStep ==
    \A i \in Tasks \cap DOMAIN thr :
        (~Raised(i) /\ Raised(i)') =>
            /\ thr'[i].pc = "add_result"
            /\ \A j \in DOMAIN thr : j # i => thr'[j] = thr[j]
            /\ UNCHANGED <<trackerVars, mainVars>>

RaisedRecorded ==
    \A i \in Tasks :
        /\ Raised(i) => /\ ~thr[i].success
                        /\ thr[i].pc # "unsubmitted"
                        /\ thr[i].url = urls[i]
        /\ (Raised(i) /\ thr[i].pc = "finished") =>
              \E k \in 1..Len(results) :
                  results[k] = [url |-> urls[i], success |-> FALSE,
                                message |-> thr[i].message]

\* C6: an exception raised during a task's metadata fetch or download becomes
\* a failed result with a message, is recorded in the tracker and returned as
\* (url, False, message); it does not escape the task, and the step in which
\* it is raised changes no other task and not the coordinator.
C6_ExceptionsBecomeResults ==
    /\ [](Main \in DOMAIN thr => RaisedRecorded)
    /\ [][RaiseStep]_vars

\* C6 witness: a task whose metadata fetch raised has finished with its failure
\* recorded while another task is still downloading.
C6_Witness ==
    /\ Main \in DOMAIN thr
    /\ \E i \in Tasks, j \in Tasks :
        /\ thr[i].pc = "finished"
        /\ thr[i].message = "Error: get_video_info"
        /\ thr[j].pc = "download_video"
        /\ Len(results) = 1

\* C7: at most executor.max_workers tasks run at any time, one task is
\* submitted per URL (in order, none twice), and a run started through main
\* has a pool of at most MAX_WORKERS_LIMIT workers.
C7_BoundedPool ==
    Main \in DOMAIN thr =>
        /\ Cardinality(Running) <= executor.max_workers
        /\ futures = [k \in 1..Len(futures) |-> k]
        /\ Len(futures) <= Len(urls)
        /\ \A i \in Tasks : (thr[i].pc # "unsubmitted") <=> (i \in 1..Len(futures))
        /\ (thr[Main].pc \in {"as_completed"} \/ InSummary) => Len(futures) = Len(urls)
        /\ executor.created => executor.max_workers = max_workers
        /\ (argv.entry = "main" /\ executor.created) =>
              executor.max_workers <= MAX_WORKERS_LIMIT

\* C7 witness: with one worker and two URLs, the second task waits in the
\* queue while the first downloads.
C7_Witness ==
    /\ Main \in DOMAIN thr
    /\ executor.max_workers = 1
    /\ Len(urls) = 2
    /\ thr[1].pc = "download_video"
    /\ thr[2].pc = "queued"

DownloadAttempted == \E t \in DOMAIN thr : thr[t].dl

NothingStarted ==
    /\ ~tracker
    /\ ~executor.created
    /\ ~DownloadAttempted
    /\ futures = <<>>
    /\ \A i \in Tasks : thr[i].pc = "unsubmitted"

\* main has not yet validated --max-workers
Validating == thr[Main].pc \in {"main", "batch_file", "stdin", "validate"}

LeftBeforeValidation ==
    /\ At("done")
    /\ outcome \in {"--list-sites", "yt-dlp not installed", "--convert",
                    "--transcribe", "Error: File not found.", "Input cancelled."}
    /\ max_workers = argv.max_workers
    /\ ~warned

\* C8: in main a --max-workers value below 1 ends the run with an error before
\* any download, tracker or pool; a value above MAX_WORKERS_LIMIT is accepted
\* with a warning and MAX_WORKERS_LIMIT is used; a value in range is used
\* unchanged.
C8_WorkerValidation ==
    (Main \in DOMAIN thr /\ argv.entry = "main") =>
        /\ argv.max_workers < 1 =>
              /\ NothingStarted
              /\ thr[Main].pc \notin {"dispatch", "menu", "youtube_download_workflow",
                                      "parallel_download_workflow"}
              /\ ~Validating =>
                    \/ LeftBeforeValidation
                    \/ At("done") /\ outcome = "Error: --max-workers must be at least 1"
        /\ (argv.max_workers >= 1 /\ ~Validating /\ ~LeftBeforeValidation) =>
              /\ argv.max_workers > MAX_WORKERS_LIMIT =>
                    warned /\ max_workers = MAX_WORKERS_LIMIT
              /\ argv.max_workers <= MAX_WORKERS_LIMIT =>
                    ~warned /\ max_workers = argv.max_workers
        /\ Validating => ~DownloadAttempted /\ ~tracker /\ ~executor.created

\* C8 witness: --max-workers 0 with two URLs collected is rejected.
C8_Witness ==
    /\ Main \in DOMAIN thr
    /\ argv = [entry |-> "main", max_workers |-> 0]
    /\ Len(urls) = 2
    /\ At("done")
    /\ outcome = "Error: --max-workers must be at least 1"

ConfigurationErrors ==
    {"Error: File not found.", "Input cancelled.",
     "Error: No URLs provided for parallel download.",
     "No URLs provided for download."}

\* C9: a missing or unreadable batch file, an interrupted stdin read, bulk
\* mode with no URL, or parallel_download_workflow called with an empty list
\* end the run with no download attempted and no tracker or pool created,
\* whatever URLs had been collected before.
C9_ConfigurationErrorsStop ==
    (Main \in DOMAIN thr /\ outcome \in ConfigurationErrors) =>
        /\ At("done")
        /\ NothingStarted
        /\ outcome \in {"Error: No URLs provided for parallel download.",
                        "No URLs provided for download."} => urls = <<>>

\* C9 witness: the batch file is missing after a URL was collected from the
\* command line.
C9_Witness ==
    /\ Main \in DOMAIN thr
    /\ outcome = "Error: File not found."
    /\ Len(urls) = 1
    /\ At("done")

OptionsBuilt == dv.pc \in {"download", "returned"}

\* C10: for every format selection download_video builds its options, and
\* without ffmpeg they hold neither 'postprocessors' nor 'merge_output_format'.
C10_NoPostProcessingWithoutFfmpeg ==
    /\ dv.pc = "configure" => ENABLED DownloadVideoConfigure
    /\ dv.pc = "special_format" => ENABLED DownloadVideoSpecialFormat
    /\ OptionsBuilt =>
          /\ "format" \in DOMAIN dv.ydl_opts
          /\ ~dv.args.ffmpeg_available =>
                /\ "postprocessors" \notin DOMAIN dv.ydl_opts
                /\ "merge_output_format" \notin DOMAIN dv.ydl_opts

\* C10 witness: mp3 requested without ffmpeg, options built.
C10_Witness ==
    /\ OptionsBuilt
    /\ dv.args.format_selection = "mp3"
    /\ ~dv.args.ffmpeg_available
    /\ dv.ydl_opts["format"] = "bestaudio/best"

Built(f) == OptionsBuilt /\ dv.args.format_selection = f

ExtractMp3 ==
    [key |-> "FFmpegExtractAudio", preferredcodec |-> "mp3",
     preferredquality |-> "192"]

\* C11: for mp3 the format is 'bestaudio/best' with and without ffmpeg;
\* without ffmpeg a warning is printed, there is no 'postprocessors' entry and
\* the download is still made; with ffmpeg there is exactly one postprocessor,
\* audio extraction to mp3 at quality 192.
C11_Mp3Resolution ==
    Built("mp3") =>
        /\ dv.ydl_opts["format"] = "bestaudio/best"
        /\ ~dv.args.ffmpeg_available =>
              /\ Len(dv.printed) > 0
              /\ dv.printed[1] = "Error: FFmpeg is required for MP3 conversion."
              /\ "postprocessors" \notin DOMAIN dv.ydl_opts
              /\ dv.pc = "download" => ENABLED DownloadVideoDownload
        /\ dv.args.ffmpeg_available =>
              /\ dv.printed = <<>>
              /\ "postprocessors" \in DOMAIN dv.ydl_opts
              /\ dv.ydl_opts["postprocessors"] = <<ExtractMp3>>

\* C11 witness: an mp3 download without ffmpeg that was warned about and
\* succeeded.
C11_Witness ==
    /\ dv.pc = "returned"
    /\ dv.args.format_selection = "mp3"
    /\ ~dv.args.ffmpeg_available
    /\ Len(dv.printed) = 2
    /\ dv.result

\* C12: for high without ffmpeg a warning is printed and the format is 'best'
\* with no merge requested; with ffmpeg the format is
\* 'bestvideo+bestaudio/best' and the output is merged to mp4.
C12_HighResolution ==
    Built("high") =>
        /\ ~dv.args.ffmpeg_available =>
              /\ Len(dv.printed) > 0
              /\ dv.printed[1] = "Error: FFmpeg is required for high quality downloads."
              /\ dv.ydl_opts["format"] = "best"
              /\ "merge_output_format" \notin DOMAIN dv.ydl_opts
        /\ dv.args.ffmpeg_available =>
              /\ dv.printed = <<>>
              /\ dv.ydl_opts["format"] = "bestvideo+bestaudio/best"
              /\ "merge_output_format" \in DOMAIN dv.ydl_opts
              /\ dv.ydl_opts["merge_output_format"] = "mp4"

\* C12 witness: a high quality download without ffmpeg, options built with
\* the fallback format.
C12_Witness ==
    /\ dv.pc = "download"
    /\ dv.args.format_selection = "high"
    /\ ~dv.args.ffmpeg_available
    /\ dv.ydl_opts["format"] = "best"
    /\ Len(dv.printed) = 2

Mp4Combined == "bestvideo[ext=mp4]+bestaudio[ext=m4a]/best[ext=mp4]/best"
Mp4Fallback == "best[ext=mp4]/best"

\* What main, youtube_download_workflow and download_video have printed about
\* the format of the download under way.
FormatWarnings == sel.printed \o dv.printed

\* C13 as stated: for mp4 with ffmpeg the format is the MP4 video+audio
\* combination falling back to best MP4 and then best; without ffmpeg it is
\* the best MP4 format and a fallback warning is printed.
C13_Mp4FallbackWarned ==
    Built("mp4") =>
        /\ dv.args.ffmpeg_available => dv.ydl_opts["format"] = Mp4Combined
        /\ ~dv.args.ffmpeg_available =>
              /\ dv.ydl_opts["format"] = Mp4Fallback
              /\ FormatWarnings # <<>>

\* C13 amended: as above, but without ffmpeg nothing is printed: neither the
\* callers nor download_video warn about the mp4 fallback, and no
\* post-processing is requested in either case.
C13_Mp4Resolution ==
    Built("mp4") =>
        /\ dv.args.ffmpeg_available => dv.ydl_opts["format"] = Mp4Combined
        /\ ~dv.args.ffmpeg_available => dv.ydl_opts["format"] = Mp4Fallback
        /\ FormatWarnings = <<>>
        /\ "postprocessors" \notin DOMAIN dv.ydl_opts
        /\ "merge_output_format" \notin DOMAIN dv.ydl_opts

\* C13 witness: --mp4 for a single URL without ffmpeg, downloaded with the
\* fallback format.
C13_Witness ==
    /\ sel.pc = "done"
    /\ sel.args.mp4
    /\ ~sel.ffmpeg_installed
    /\ Len(sel.applied) = 1
    /\ sel.applied[1].format_selection = "mp4"
    /\ sel.applied[1].format = Mp4Fallback
    /\ sel.applied[1].success

\* The format selections handed to download_video so far, the call under way
\* included.
Selections ==
    {sel.applied[k].format_selection : k \in 1..Len(sel.applied)}
        \cup (IF dv.pc = "none" THEN {} ELSE {dv.args.format_selection})
        \cup {sel.tasks[i].format_selection : i \in DOMAIN sel.tasks}

AnyFlag ==
    sel.args.mp3 \/ sel.args.mp4 \/ sel.args.high \/ Truthy(sel.args.format)

\* mp3 > mp4 > high > explicit format id
Governing ==
    CASE sel.args.mp3 -> "mp3"
      [] ~sel.args.mp3 /\ sel.args.mp4 -> "mp4"
      [] ~sel.args.mp3 /\ ~sel.args.mp4 /\ sel.args.high -> "high"
      [] OTHER -> sel.args.format

Bulk == sel.n > 1 \/ sel.parallel

CallsOf(fn) == {k \in 1..Len(tw.calls) : tw.calls[k].fn = fn}

EngineCalls ==
    CallsOf("download_audio_for_transcription")
        \cup CallsOf("transcribe_with_whisper")

AudioDownloaded == tw.audio_path # Absent

\* C15: a run that downloaded the temporary audio file ends with the file
\* deleted, whatever the engine returned.
C15_TempAudioDeleted ==
    (tw.pc = "done" /\ AudioDownloaded) => ~tw.audio_file

\* The workflow is on the Whisper path: at its dependency check or past it.
EnginePath ==
    \/ tw.pc \in {"local", "local_whisper", "url_whisper", "download_audio",
                  "url_transcribe", "cleanup"}
    \/ tw.path = "whisper"

DependencyMissing == ~tw.whisper_available \/ ~tw.ffmpeg_available

WhisperReasons ==
    {"Error: Whisper is required for local file transcription.",
     "Error: Whisper is not installed and no subtitles were found."}

FfmpegReasons ==
    {"Error: FFmpeg is required for Whisper transcription.",
     "Error: FFmpeg is required for audio download and Whisper transcription."}

\* On the Whisper path with a dependency missing, the workflow is at the
\* check or has returned with the reason, and has called neither the audio
\* download nor Whisper nor save_transcription.
StoppedAtCheck ==
    (EnginePath /\ DependencyMissing) =>
        /\ tw.pc \in {"local", "url_whisper", "done"}
        /\ tw.pc = "done" =>
              /\ ~tw.whisper_available => tw.outcome \in WhisperReasons
              /\ tw.whisper_available => tw.outcome \in FfmpegReasons
        /\ EngineCalls = {}
        /\ CallsOf("save_transcription") = {}
        /\ ~tw.audio_file
        /\ tw.saved = {}

\* The check itself ends the run.
CheckStep ==
    (tw.pc \in {"local", "url_whisper"} /\ DependencyMissing) =>
        /\ tw'.pc = "done"
        /\ tw'.outcome \in WhisperReasons \cup FfmpegReasons

\* C16: on the Whisper path (local file, no subtitles, subtitles declined)
\* Whisper and FFmpeg are both required: if one is missing the run ends with
\* an error naming it, without audio download, Whisper call or output file.
C16_EngineNeedsBoth ==
    /\ [](StoppedAtCheck /\ (EngineCalls # {} => ~DependencyMissing))
    /\ [][CheckStep]_vars

\* C16 witness: a URL without subtitles, Whisper installed but FFmpeg missing.
C16_Witness ==
    /\ tw.pc = "done"
    /\ ~tw.is_local
    /\ tw.subtitles = Absent
    /\ tw.whisper_available
    /\ ~tw.ffmpeg_available
    /\ tw.outcome = "Error: FFmpeg is required for audio download and Whisper transcription."

\* C17: a local file never has its subtitles extracted or its audio
\* downloaded and is transcribed from the given path; for a URL, subtitle
\* extraction precedes every audio download and Whisper call, the audio
\* download precedes the Whisper call, and the Whisper path is entered only
\* if no subtitles were found or the user chose Whisper.
C17_SubtitlesBeforeEngine ==
    /\ tw.is_local =>
          /\ CallsOf("extract_subtitles_from_url") = {}
          /\ CallsOf("download_audio_for_transcription") = {}
          /\ \A k \in CallsOf("transcribe_with_whisper") :
                tw.calls[k].on = "source"
          /\ tw.pc \notin {"url", "subtitles", "choice", "url_whisper",
                           "download_audio", "url_transcribe", "cleanup"}
    /\ ~tw.is_local =>
          /\ \A k \in EngineCalls :
                \E j \in CallsOf("extract_subtitles_from_url") : j < k
          /\ \A k \in CallsOf("transcribe_with_whisper") :
                /\ tw.calls[k].on = "audio_path"
                /\ \E j \in CallsOf("download_audio_for_transcription") : j < k
          /\ tw.pc \notin {"local", "local_whisper"}
          /\ (tw.path = "whisper" \/ tw.pc = "url_whisper") =>
                /\ CallsOf("extract_subtitles_from_url") # {}
                /\ tw.subtitles = Absent \/ tw.sub_choice = "2"
    /\ \A k \in CallsOf("save_transcription") : k = Len(tw.calls)

\* C17 witness: subtitles found for a URL, the user chose Whisper, and the
\* calls were made in the order extraction, download, Whisper, save.
C17_Witness ==
    /\ tw.pc = "done"
    /\ tw.subtitles # Absent
    /\ tw.sub_choice = "2"
    /\ Len(tw.calls) = 4
    /\ tw.calls[1].fn = "extract_subtitles_from_url"
    /\ tw.calls[2].fn = "download_audio_for_transcription"
    /\ tw.calls[3].fn = "transcribe_with_whisper"
    /\ tw.calls[4].fn = "save_transcription"

SubtitlesUsed == tw.path = "subtitles"

Produced ==
    tw.outcome \in {"Transcription saved", "Failed to save transcription file."}

\* C18: the choice between subtitles and Whisper is offered only with Whisper
\* installed; without it subtitles found are used; subtitles used give the
\* text parse_subtitle_to_text returns for them and no segments; segments are
\* set exactly when the text comes from Whisper, and a result produced has
\* segments exactly then.
C18_SubtitleChoice ==
    /\ tw.offered => tw.whisper_available
    /\ (tw.subtitles # Absent /\ ~tw.whisper_available /\ tw.pc # "choice") =>
          /\ SubtitlesUsed
          /\ ~tw.offered
    /\ SubtitlesUsed =>
          /\ tw.subtitles # Absent
          /\ tw.transcription_text =
                Some(parse_subtitle_to_text(tw.subtitles[1]))
          /\ tw.transcription_segments = Absent
          /\ EngineCalls = {}
    /\ tw.transcription_segments # Absent <=>
          (tw.path = "whisper" /\ tw.transcription_text # Absent)
    /\ Produced =>
          (TruthyValue(tw.transcription_segments) <=> tw.path = "whisper")

\* C18 witness: subtitles found without Whisper installed, used without
\* asking, and saved.
C18_Witness ==
    /\ tw.outcome = "Transcription saved"
    /\ ~tw.whisper_available
    /\ SubtitlesUsed
    /\ ~tw.offered
    /\ tw.transcription_text = Some(<<"a">>)

Classified == tw.pc \notin {"source", "classify"}

Allowlisted == LowerExt(tw.source.ext) \in SUPPORTED_MEDIA_EXTENSIONS

\* C19 as stated: a source is local only when its extension is in the
\* allowlist and the file exists; anything else, an existing file with
\* another extension included, is a URL.
C19_LocalOnlyAllowlisted ==
    Classified => (tw.is_local <=> (Allowlisted /\ tw.source.isfile))

ClassifiedAsLocal ==
    Classified =>
        /\ tw.is_local <=>
              (tw.source.isfile /\ (Allowlisted \/ ~tw.source.http))
        /\ tw.pc \in {"local", "local_whisper"} => tw.is_local
        /\ tw.pc \in {"url", "subtitles", "choice", "url_whisper",
                      "download_audio", "url_transcribe", "cleanup"}
              => ~tw.is_local

ClassificationKept ==
    Classified => /\ tw'.is_local = tw.is_local
                  /\ tw'.source = tw.source

\* C19 amended: a source is local exactly when the file exists and its
\* extension is in the allowlist or it does not start with http:// or
\* https://; anything else is a URL; the classification is made once and
\* never changes.
C19_Classification ==
    /\ []ClassifiedAsLocal
    /\ [][ClassificationKept]_vars

\* C19 witness: an existing file with an extension outside the allowlist,
\* transcribed as a local file.
C19_Witness ==
    /\ tw.source = [ext |-> ".txt", isfile |-> TRUE, http |-> FALSE]
    /\ tw.is_local
    /\ tw.pc = "done"
    /\ CallsOf("transcribe_with_whisper") # {}
    /\ tw.outcome = "Transcription saved"

\* C20: parsing the text parse_subtitle_to_text returned gives that text
\* again.
C20_Idempotent ==
    ps.pc = "reparsed" => ps.again = ps.text

\* The stripped lines of the input that are not blank, digits only, header
\* lines or timestamp lines, each with its tags and directives removed.
RawLines == Split(ps.subtitle_content, "\n")

StrippedLines == [i \in 1..Len(RawLines) |-> Strip(RawLines[i])]

Survives(line) == ~SkippedLine(line)

NonEmpty(line) == line # <<>>

Survivors == SelectSeq(StrippedLines, Survives)

CleanedSurvivors == [i \in 1..Len(Survivors) |-> CleanedLine(Survivors[i])]

\* L without the elements equal to their predecessor, in the order of L.
FirstOfRun(L) == {i \in 1..Len(L) : i = 1 \/ L[i] # L[i - 1]}

Collapsed(L) ==
    [j \in 1..Cardinality(FirstOfRun(L)) |->
        L[CHOOSE i \in FirstOfRun(L) :
              Cardinality({k \in FirstOfRun(L) : k <= i}) = j]]

\* C21 as stated: the surviving lines, markup removed, with immediate
\* repetitions collapsed, joined in order by single spaces.
C21_SurvivorsCollapsed ==
    ps.pc = "returned" =>
        ps.text = Join(Collapsed(CleanedSurvivors), " ")

\* C21 amended: as stated, except that a surviving line left empty by the
\* removal of its markup is discarded too, before the collapsing.
C21_StripThenCollapse ==
    ps.pc = "returned" =>
        ps.text = Join(Collapsed(SelectSeq(CleanedSurvivors, NonEmpty)), " ")

\* C21 witness: two neighbours differing only by markup collapse, and the
\* same line after a different one is kept.
C21_Witness ==
    /\ ps.pc = "returned"
    /\ RawLines = <<<<"<", "a", ">", "a">>, <<"a">>, <<"-">>, <<"a">>>>
    /\ ps.text = <<"a", " ", "-", " ", "a">>

\* C22: for a time of t whole milliseconds both functions print
\* H = t div 3600000, M = (t div 60000) mod 60, S = (t div 1000) mod 60 and
\* ms = t mod 1000, padded to 2, 2, 2 and 3 digits, the hours in full, with
\* a comma before ms in SRT and a dot in VTT.
C22_FieldsOfMillis ==
    ft.pc = "done" =>
        /\ ft.srt = Timestamp(ft.t \div 3600000, (ft.t \div 60000) % 60,
                              (ft.t \div 1000) % 60, ft.t % 1000, ",")
        /\ ft.vtt = Timestamp(ft.t \div 3600000, (ft.t \div 60000) % 60,
                              (ft.t \div 1000) % 60, ft.t % 1000, ".")

\* The records the tracker holds for the URL of task i.
RecordsOfTask(i) == RecordsOf(thr[i].url)

FinishedTasks == {i \in Tasks : thr[i].pc = "finished"}

\* What a task records when its download returned True, returned False or
\* raised.
DownloadOutcome(r) ==
    [success |-> r = "True",
     message |-> IF r = "True" THEN "Downloaded to output_path"
                 ELSE IF r = "False" THEN "Failed to download"
                 ELSE "Error: download_video"]

RecordedByDownloadAlone(i) ==
    /\ thr[i].dls = 1
    /\ RecordsOfTask(i) # {}
    /\ \A k \in RecordsOfTask(i) :
          /\ results[k].success = DownloadOutcome(thr[i].dlr).success
          /\ results[k].message = DownloadOutcome(thr[i].dlr).message

\* C23 as stated: whether get_video_info returned nothing or raised, the
\* download is attempted and the recorded outcome is that of the download.
C23_MetadataFailureNonFatal ==
    \A i \in FinishedTasks :
        thr[i].info \in {"None", "raise"} => RecordedByDownloadAlone(i)

\* C23 amended: when get_video_info returns a dict or nothing the download is
\* attempted once and alone determines the recorded outcome; when it raises,
\* the download is not attempted and the item is recorded as failed with the
\* error of the metadata fetch.
C23_MetadataNoneNonFatal ==
    \A i \in FinishedTasks :
        /\ thr[i].info \in {"info", "None"} => RecordedByDownloadAlone(i)
        /\ thr[i].info = "raise" =>
              /\ thr[i].dls = 0
              /\ RecordsOfTask(i) # {}
              /\ \A k \in RecordsOfTask(i) :
                    /\ ~results[k].success
                    /\ results[k].message = "Error: get_video_info"

\* C23 witness: one task downloaded successfully after get_video_info
\* returned nothing, another was recorded as failed after it raised.
C23_Witness ==
    /\ \E i \in FinishedTasks :
          /\ thr[i].info = "None"
          /\ thr[i].dlr = "True"
          /\ \E k \in RecordsOfTask(i) : results[k].success
    /\ \E j \in FinishedTasks :
          /\ thr[j].info = "raise"
          /\ \E k \in RecordsOfTask(j) : ~results[k].success

\* A step in which caller t changes the list it holds, and one in which
\* get_results hands t a new list.
CallerEdits(t) == CallerAppend(t) \/ CallerPop(t)

Holds(t) == thr[t].view # "none" /\ thr[t].pc # "gr_copy"

ReturnedListKept ==
    \A t \in Callers :
        (Holds(t) /\ ~CallerEdits(t)) => Returned(t)' = Returned(t)

CallerEditsStayLocal ==
    \A t \in Callers :
        CallerEdits(t) => UNCHANGED <<completed, failed, total, results>>

\* C24: a list returned by get_results keeps its length and contents whatever
\* add_result calls follow, and appending to it or removing from it leaves
\* the tracker's completed, failed, total and results unchanged.
C24_GetResultsCopy == [][ReturnedListKept /\ CallerEditsStayLocal]_vars

\* C24 witness: a caller holds a list it got before an add_result of another
\* thread and has since appended to; the tracker has the added record only.
C24_Witness ==
    \E t \in Callers :
        /\ thr[t].pc = "idle"
        /\ thr[t].list = <<CallerItem>>
        /\ Len(results) = 1
        /\ results[1].url # CallerItem.url
        /\ completed = 1

\* The bulk run has printed its summary.
SummaryPrinted == At("done") /\ outcome = "Download Summary"

\* A task other than i failed.
SiblingFailed(i) == \E j \in Submitted \ {i} : thr[j].pc = "finished" /\ ~thr[j].success

DownloadsAtMostOnce ==
    \A i \in Tasks :
        /\ thr[i].dls <= 1
        /\ Cardinality(RecordsOfTask(i)) <= 1

\* Every task ran to its end and attempted its download (unless its own
\* metadata fetch raised), whatever happened to the others.
NoSiblingSkipped ==
    SummaryPrinted =>
        \A i \in Submitted :
            /\ thr[i].pc = "finished"
            /\ Cardinality(RecordsOfTask(i)) = 1
            /\ thr[i].info # "raise" => thr[i].dls = 1

\* A record, once added, stays as it is and where it is, and a download,
\* once invoked, is not invoked again.
RecordsFinal ==
    /\ Len(results') >= Len(results)
    /\ \A k \in 1..Len(results) : results'[k] = results[k]
    /\ \A i \in Tasks : thr'[i].dls >= thr[i].dls

\* C25: each submitted URL's download is invoked at most once, a recorded
\* failure is never replaced or followed by a success record for the same
\* URL, and a failure leaves every sibling task to run.
C25_NoRetry ==
    /\ [](DownloadsAtMostOnce /\ NoSiblingSkipped)
    /\ [][RecordsFinal]_vars

\* C25 witness: after the summary, one URL is recorded as failed, once, and
\* its sibling's download was invoked once and succeeded.
C25_Witness ==
    /\ SummaryPrinted
    /\ \E i \in Submitted :
          /\ SiblingFailed(i)
          /\ thr[i].dls = 1
          /\ thr[i].success
          /\ Len(results) = 2

\* C26: after the barrier the printed failure list holds exactly the URLs
\* recorded with success = False, each with its recorded message; it has as
\* many entries as the reported failed count, lists no successful URL, and
\* is not empty when failed > 0.
C26_FailureList ==
    SummaryPrinted =>
        /\ {<<failures[k].url, failures[k].message>> : k \in 1..Len(failures)} =
              {<<results[k].url, results[k].message>> : k \in FailedRecords}
        /\ Len(failures) = status.failed
        /\ Len(failures) = Cardinality(FailedRecords)
        /\ \A k \in 1..Len(failures) :
              \A j \in RecordsOf(failures[k].url) : ~results[j].success
        /\ status.failed > 0 => failures # <<>>

\* C26 witness: two URLs, one failed and one succeeded; the list has the
\* failed one only.
C26_Witness ==
    /\ SummaryPrinted
    /\ status.failed = 1
    /\ status.success = 1
    /\ Len(failures) = 1
    /\ failures[1].message = "Failed to download"

\* The positions inside a `with self.lock:` block of the tracker.
LockedPcs ==
    {"ar_load_completed", "ar_store_completed", "ar_load_failed",
     "ar_store_failed", "ar_append", "ar_release", "st_store", "st_release",
     "gs_completed", "gs_failed", "gs_total", "gs_success", "gs_release",
     "gr_copy", "gr_release"}

\* The lock is held by exactly the thread that is inside a tracker method,
\* so never by a task at its metadata fetch or download.
LockHeldInsideOperation ==
    /\ Cardinality(lock) <= 1
    /\ \A t \in DOMAIN thr : (t \in lock) <=> (thr[t].pc \in LockedPcs)

\* Only a run that has ended has no next step.
NoDeadlock == ~At("done") => ENABLED NextBulk

BulkRunStarted == At("parallel_download_workflow") /\ Len(urls) >= 1

\* C27: under fair scheduling a bulk run of one or more URLs with one or
\* more workers reaches its final summary; the tracker lock is held only
\* inside one tracker operation, is always released (at every moment it is
\* free or will be free later), and no reachable state short of the end is a
\* deadlock.
C27_ReachesSummary ==
    /\ [](LockHeldInsideOperation /\ NoDeadlock)
    /\ []<>(lock = NoOwner)
    /\ BulkRunStarted ~> SummaryPrinted

\* C27 witness: the summary of a run of MaxUrls URLs on a single worker,
\* with the lock free again.
C27_Witness ==
    /\ SummaryPrinted
    /\ Len(urls) >= 2
    /\ executor.max_workers = 1
    /\ status.total = Len(urls)
    /\ lock = NoOwner

\* The language keys of a dict of tracks that start with the language asked.
MatchingKeys(tracks) ==
    {tracks[i].key : i \in {j \in 1..Len(tracks) :
                               StartsWith(tracks[j].key, ex.language)}}

PastSelection == ex.pc \in {"format", "download", "read"} \/ ex.downloads # <<>>

\* C28: an automatic caption track is selected only when no manual track's
\* language key starts with the requested language, a manual one whenever
\* there is one; when neither kind has a matching key nothing is found and
\* nothing is downloaded.
C28_ManualFirst ==
    /\ PastSelection =>
          /\ ex.source = "automatic_captions" =>
                /\ MatchingKeys(ex.subtitles) = {}
                /\ ex.lang_key \in MatchingKeys(ex.auto_captions)
          /\ ex.source = "subtitles" => ex.lang_key \in MatchingKeys(ex.subtitles)
          /\ MatchingKeys(ex.subtitles) # {} => ex.source = "subtitles"
    /\ (MatchingKeys(ex.subtitles) = {} /\ MatchingKeys(ex.auto_captions) = {}) =>
          /\ ~PastSelection
          /\ ex.downloads = <<>>
          /\ ex.result = Absent

\* C28 witness: both kinds have a track for the language; the manual one was
\* selected and downloaded.
C28_Witness ==
    /\ ex.pc = "done"
    /\ MatchingKeys(ex.subtitles) # {}
    /\ MatchingKeys(ex.auto_captions) # {}
    /\ ex.source = "subtitles"
    /\ ex.downloads # <<>>
    /\ ex.result # Absent

\* The tuple (url, success, message) as the record add_result would hold.
AsRecord(tuple) ==
    [url |-> tuple[1], success |-> tuple[2], message |-> tuple[3]]

\* C29: a download_video_parallel call that has returned has added exactly
\* one record to the tracker, whether the download succeeded, failed or
\* something raised, and the record equals the tuple it returned.
C29_OneRecordPerTask ==
    \A i \in FinishedTasks :
        /\ Cardinality(RecordsOfTask(i)) = 1
        /\ Len(thr[i].result) = 3
        /\ \A k \in RecordsOfTask(i) : results[k] = AsRecord(thr[i].result)
        /\ thr[i].result[1] = urls[i]

\* C29 witness: two calls have returned, one after a successful download and
\* one after a download that failed or raised, each with its record.
C29_Witness ==
    \E i \in FinishedTasks, j \in FinishedTasks :
        /\ thr[i].dlr = "True"
        /\ thr[j].dlr \in {"False", "raise"}
        /\ \E k \in RecordsOfTask(i) : results[k].message = "Downloaded to output_path"
        /\ \E k \in RecordsOfTask(j) : results[k].message = thr[j].result[3]
        /\ Len(results) = 2

\* Subtitles were fetched and kept, and normalise to the empty text.
EmptySubtitlesUsed ==
    /\ tw.sub_text # Absent
    /\ tw.pc # "choice"
    /\ parse_subtitle_to_text(tw.sub_text[1]) = <<>>

\* C30: for a URL whose subtitles are used but normalise to an empty text,
\* the workflow never turns to Whisper, available or not: it downloads no
\* audio, calls no engine, saves no file and ends reporting that no
\* transcription text was generated.
C30_NoFallbackOnEmptyText ==
    EmptySubtitlesUsed =>
        /\ tw.pc \in {"save", "done"}
        /\ EngineCalls = {}
        /\ ~AudioDownloaded
        /\ CallsOf("save_transcription") = {}
        /\ tw.saved = {}
        /\ tw.pc = "done" => tw.outcome = "No transcription text was generated."

\* C30 witness: Whisper and FFmpeg are installed, the user chose the
\* subtitles, they hold no text, and the run ended without any output.
C30_Witness ==
    /\ tw.pc = "done"
    /\ EmptySubtitlesUsed
    /\ tw.whisper_available
    /\ tw.ffmpeg_available
    /\ tw.offered
    /\ tw.sub_choice # "2"
    /\ tw.outcome = "No transcription text was generated."

====
